---- MODULE Spec2Model ----
\* A model of horreum, an LSM key-value store: the MemTable task, the
\* SSTableManager task (flush intake, k-way merge compaction, reads), the
\* command router that sits in front of both, the record codec and the
\* sparse block index.
EXTENDS Integers, Sequences, FiniteSets, TLC

\* ---------------------------------------------------------------------
\* Bounds and configuration of the checked instance
\* ---------------------------------------------------------------------

\* number of concurrent router callers
NumClients == 1
\* tasks that call the MemTable's methods themselves, side by side
NumCallers == 2
\* router callers when a Get races with a flush: the first writes, the rest read
NumRaceClients == 2
\* calls each of them makes in one behaviour
MaxCalls == 2
\* flushes the MemTable may start in one behaviour
MaxFlushes == 2
\* I/O faults injected in one behaviour
MaxFaults == 1
\* MemTable::size_limit (Config::memtable_limit)
SizeLimit == 2
\* SSTableManager::new's compaction_trigger_ratio argument, in percent
TriggerPercent == 100
\* SSTableManager::block_stride (Config::block_stride)
BlockStride == 1
\* capacity of each mpsc channel
ChannelCap == 1

\* input tables of a merge that is checked on its own
MaxTables == 3

Clients == 1..NumClients
Callers == 1..NumCallers
\* the callers of the router when a Get races with a flush
RaceClients == 1..NumRaceClients

\* keys and values are byte strings (Vec<u8>)
Keys == {<<1>>, <<1, 2>>}
\* the values a client puts under a key (the empty value among them)
PutValues(k) == IF k = <<1>> THEN {<<>>, <<7>>, <<8, 8>>} ELSE {<<9>>}

\* ---------------------------------------------------------------------
\* Option<T>: None is the empty sequence, Some(x) the one-element sequence
\* ---------------------------------------------------------------------
None == <<>>
Some(x) == <<x>>
IsSome(o) == Len(o) = 1
Unwrap(o) == o[1]
\* Option::flatten
Flatten(o) == IF o = <<>> THEN <<>> ELSE o[1]

\* ---------------------------------------------------------------------
\* Byte strings: lexicographic order of Vec<u8>
\* ---------------------------------------------------------------------
KeyLt(a, b) ==
    \E i \in 1..Len(b) :
        /\ i - 1 <= Len(a)
        /\ \A j \in 1..(i - 1) : a[j] = b[j]
        /\ (i = Len(a) + 1 \/ a[i] < b[i])

KeyLe(a, b) == a = b \/ KeyLt(a, b)

RECURSIVE SortedKeys(_)
\* the keys of S in ascending order (iteration order of a BTreeMap)
SortedKeys(S) ==
    IF S = {} THEN <<>>
    ELSE LET m == CHOOSE k \in S : \A o \in S : KeyLe(k, o)
         IN <<m>> \o SortedKeys(S \ {m})

\* ---------------------------------------------------------------------
\* Record codec (format.rs)
\* ---------------------------------------------------------------------
\* InternalPair { key, value: Option<Vec<u8>> }
InternalPair(k, v) == [key |-> k, value |-> v]

\* bincode of a usize: 8 bytes, little-endian (lengths here stay below 2^24)
LE8(n) == [i \in 1..8 |-> IF i = 1 THEN n % 256
                          ELSE IF i = 2 THEN (n \div 256) % 256
                          ELSE IF i = 3 THEN (n \div 65536) % 256
                          ELSE 0]

\* the usize read back from 8 little-endian bytes; -1 when it does not fit
\* the lengths the model can hold (a high byte is set)
FromLE8(b) ==
    IF \E i \in 4..8 : b[i] # 0 THEN -1
    ELSE b[1] + 256 * b[2] + 65536 * b[3]

\* an encoding that writes the value length before the key length
serialize_value_length_first(pair) ==
    (IF IsSome(pair.value) THEN LE8(Len(Unwrap(pair.value))) ELSE [i \in 1..8 |-> 0])
    \o LE8(Len(pair.key))
    \o pair.key
    \o (IF IsSome(pair.value) THEN Unwrap(pair.value) ELSE <<>>)

\* InternalPair::serialize
serialize(pair) ==
    LE8(Len(pair.key))
    \o (IF IsSome(pair.value) THEN LE8(Len(Unwrap(pair.value))) ELSE [i \in 1..8 |-> 0])
    \o pair.key
    \o (IF IsSome(pair.value) THEN Unwrap(pair.value) ELSE <<>>)

RECURSIVE serialize_flatten(_)
\* InternalPair::serialize_flatten
serialize_flatten(pairs) ==
    IF pairs = <<>> THEN <<>>
    ELSE serialize(Head(pairs)) \o serialize_flatten(Tail(pairs))

\* a decoder that returns what is left of the buffer as the key of a record
\* whose announced bytes are not all there
deserialize_inner_lenient(bytes, pos) ==
    IF pos + 16 > Len(bytes)
    THEN [ok |-> FALSE, pair |-> InternalPair(<<>>, None), pos |-> pos]
    ELSE LET key_length == FromLE8(SubSeq(bytes, pos + 1, pos + 8))
             value_length == FromLE8(SubSeq(bytes, pos + 9, pos + 16))
         IN IF key_length < 0 \/ value_length < 0
            THEN [ok |-> FALSE, pair |-> InternalPair(<<>>, None), pos |-> pos + 16]
            ELSE IF pos + 16 + key_length + value_length > Len(bytes)
            THEN [ok |-> TRUE,
                  pair |-> InternalPair(SubSeq(bytes, pos + 17, Len(bytes)), None),
                  pos |-> Len(bytes)]
            ELSE LET key == SubSeq(bytes, pos + 17, pos + 16 + key_length)
                     value == IF value_length > 0
                              THEN Some(SubSeq(bytes, pos + 17 + key_length,
                                               pos + 16 + key_length + value_length))
                              ELSE None
                 IN [ok |-> TRUE, pair |-> InternalPair(key, value),
                     pos |-> pos + 16 + key_length + value_length]

\* InternalPair::deserialize_inner on the cursor position pos (0-based):
\* [ok, pair, pos]; ok = FALSE is the Err of a failed read_exact
deserialize_inner(bytes, pos) ==
    IF pos + 16 > Len(bytes)
    THEN [ok |-> FALSE, pair |-> InternalPair(<<>>, None), pos |-> pos]
    ELSE LET key_length == FromLE8(SubSeq(bytes, pos + 1, pos + 8))
             value_length == FromLE8(SubSeq(bytes, pos + 9, pos + 16))
         IN IF \/ key_length < 0
               \/ value_length < 0
               \/ pos + 16 + key_length + value_length > Len(bytes)
            THEN [ok |-> FALSE, pair |-> InternalPair(<<>>, None), pos |-> pos + 16]
            ELSE LET key == SubSeq(bytes, pos + 17, pos + 16 + key_length)
                     value == IF value_length > 0
                              THEN Some(SubSeq(bytes, pos + 17 + key_length,
                                               pos + 16 + key_length + value_length))
                              ELSE None
                 IN [ok |-> TRUE, pair |-> InternalPair(key, value),
                     pos |-> pos + 16 + key_length + value_length]

RECURSIVE deserialize_loop(_, _, _)
\* (a value that is used more than once is bound by r \in {..}, which
\* computes it once)
deserialize_loop(bytes, pos, pairs) ==
    IF pos < Len(bytes)
    THEN CHOOSE result \in
             {IF r.ok THEN deserialize_loop(bytes, r.pos, Append(pairs, r.pair))
              ELSE [ok |-> FALSE, pairs |-> <<>>] : r \in {deserialize_inner(bytes, pos)}} : TRUE
    ELSE [ok |-> TRUE, pairs |-> pairs]

\* InternalPair::deserialize_from_bytes: [ok, pairs]
deserialize_from_bytes(bytes) == deserialize_loop(bytes, 0, <<>>)

\* ---------------------------------------------------------------------
\* Sparse block index (sstable/index.rs)
\* ---------------------------------------------------------------------
Block(key, position, length) == [key |-> key, position |-> position, length |-> length]

\* an index whose blocks all start at the same offset
index_items_same_offset(pairs, block_stride, read_len) ==
    [j \in 1..((Len(pairs) + block_stride - 1) \div block_stride) |->
        LET first == (j - 1) * block_stride + 1
            last == IF j * block_stride < Len(pairs) THEN j * block_stride ELSE Len(pairs)
        IN Block(pairs[first].key, read_len,
                 Len(serialize_flatten(SubSeq(pairs, first, last))))]

RECURSIVE index_items(_, _, _)
\* the loop of Index::new over pairs.chunks(block_stride)
index_items(pairs, block_stride, read_len) ==
    IF pairs = <<>> THEN <<>>
    ELSE LET n == IF block_stride < Len(pairs) THEN block_stride ELSE Len(pairs)
             pair_chunk == SubSeq(pairs, 1, n)
             block_data == serialize_flatten(pair_chunk)
         IN <<Block(pair_chunk[1].key, read_len, Len(block_data))>>
            \o index_items(SubSeq(pairs, n + 1, Len(pairs)), block_stride,
                           read_len + Len(block_data))

\* Index::new
Index_new(pairs, block_stride) == index_items(pairs, block_stride, 0)

\* a lookup that finds only the first key of a block
Index_get_exact(items, key) ==
    LET hit == {i \in 1..Len(items) : items[i].key = key}
    IN IF hit # {}
       THEN LET pos == CHOOSE i \in hit : TRUE
            IN Some(<<items[pos].position, items[pos].length>>)
       ELSE None

\* Index::get: binary search for key on the sorted first keys, falling back
\* to the block before the insertion point; None below the first block
Index_get(items, key) ==
    LET hit == {i \in 1..Len(items) : items[i].key = key}
        below == Cardinality({i \in 1..Len(items) : KeyLt(items[i].key, key)})
    IN IF hit # {}
       THEN LET pos == CHOOSE i \in hit : TRUE
            IN Some(<<items[pos].position, items[pos].length>>)
       ELSE IF below > 0
            THEN Some(<<items[below].position, items[below].length>>)
            ELSE None

\* ---------------------------------------------------------------------
\* Persisted file (sstable/storage.rs).  The data directory is a function
\* from the number N of a file name table_N to the bytes of that file.
\* ---------------------------------------------------------------------

\* bytes of a file after write_all(data) from offset 0 on a file opened with
\* create + write and no truncate: data, then what the old file held beyond it
write_over(old, data) ==
    IF Len(old) > Len(data) THEN data \o SubSeq(old, Len(data) + 1, Len(old)) ELSE data

\* PersistedFile::new: the directory after writing the serialized pairs to path
PersistedFile_new(fs, path, pairs) ==
    LET data == serialize_flatten(pairs)
        old == IF path \in DOMAIN fs THEN fs[path] ELSE <<>>
    IN [p \in (DOMAIN fs) \cup {path} |-> IF p = path THEN write_over(old, data) ELSE fs[p]]

\* PersistedFile::new when write_all fails: open() has created the file
PersistedFile_new_failed(fs, path) ==
    [p \in (DOMAIN fs) \cup {path} |-> IF p \in DOMAIN fs THEN fs[p] ELSE <<>>]

\* PersistedFile::read_at: seek, then read_exact of length bytes
PersistedFile_read_at(bytes, position, length) ==
    IF position + length <= Len(bytes)
    THEN [ok |-> TRUE, bytes |-> SubSeq(bytes, position + 1, position + length)]
    ELSE [ok |-> FALSE, bytes |-> <<>>]

\* PersistedFile::read_all: read_to_end, then deserialize_from_bytes(..).unwrap();
\* ok = FALSE is the panic of that unwrap
PersistedFile_read_all(bytes) == deserialize_from_bytes(bytes)

\* PersistedFile::delete: remove_file
PersistedFile_delete(fs, path) == [p \in (DOMAIN fs) \ {path} |-> fs[p]]

\* ---------------------------------------------------------------------
\* SSTable (spec section 4.4): an open file, its sparse index, its size
\* ---------------------------------------------------------------------
\* SSTable::new(file, pairs, size, block_stride)
SSTable_new(path, pairs, size, block_stride) ==
    [path |-> path, index |-> Index_new(pairs, block_stride), size |-> size]

\* SSTable::get, the search of the decoded block for the key
SSTable_search(decoded, key) ==
    LET found == {i \in 1..Len(decoded.pairs) : decoded.pairs[i].key = key}
    IN IF found = {} THEN [ok |-> TRUE, pair |-> None]
       ELSE [ok |-> TRUE, pair |-> Some(decoded.pairs[CHOOSE i \in found : TRUE])]

\* SSTable::get, the read and the decoding of the block at loc
SSTable_read(bytes, loc, key) ==
    CHOOSE result \in
        {IF ~block.ok THEN [ok |-> FALSE, pair |-> None]
         ELSE CHOOSE searched \in
                  {IF ~decoded.ok THEN [ok |-> FALSE, pair |-> None]
                   ELSE SSTable_search(decoded, key) :
                      decoded \in {deserialize_from_bytes(block.bytes)}} : TRUE :
            block \in {PersistedFile_read_at(bytes, Unwrap(loc)[1], Unwrap(loc)[2])}} : TRUE

\* SSTable::get: index lookup, read of the block, decode, search by key.
\* [ok, pair]: pair is an Option<InternalPair>, ok = FALSE an Err
SSTable_get(table, fs, key) ==
    CHOOSE result \in
        {IF loc = None THEN [ok |-> TRUE, pair |-> None]
         ELSE SSTable_read(fs[table.path], loc, key) :
            loc \in {Index_get(table.index, key)}} : TRUE

\* SSTable::get_all: every record of the file
SSTable_get_all(table, fs) == PersistedFile_read_all(fs[table.path])

\* ---------------------------------------------------------------------
\* SSTableManager (sstable/manager.rs): pure parts
\* ---------------------------------------------------------------------

\* SSTableManager::new_table_path: the N of table_N
new_table_path(tables) == Len(tables)

\* SSTableManager::create without I/O error: [tables, files]
SSTableManager_create(tables, fs, pairs, size) ==
    LET table_path == new_table_path(tables)
    IN [tables |-> Append(tables, SSTable_new(table_path, pairs, size, BlockStride)),
        files |-> PersistedFile_new(fs, table_path, pairs)]

RECURSIVE get_from(_, _, _, _)
\* the loop of SSTableManager::get from the table at index i down to 1
get_from(tables, fs, key, i) ==
    IF i = 0 THEN [ok |-> TRUE, pair |-> None]
    ELSE CHOOSE result \in
             {IF ~r.ok THEN r
              ELSE IF IsSome(r.pair) THEN r
              ELSE get_from(tables, fs, key, i - 1) : r \in {SSTable_get(tables[i], fs, key)}} : TRUE

RECURSIVE get_upto(_, _, _, _)
\* the loop without rev(): from the table at index i up to the last
get_upto(tables, fs, key, i) ==
    IF i > Len(tables) THEN [ok |-> TRUE, pair |-> None]
    ELSE CHOOSE result \in
             {IF ~r.ok THEN r
              ELSE IF IsSome(r.pair) THEN r
              ELSE get_upto(tables, fs, key, i + 1) : r \in {SSTable_get(tables[i], fs, key)}} : TRUE

\* a get that probes the oldest table first
SSTableManager_get_oldest_first(tables, fs, key) == get_upto(tables, fs, key, 1)

\* SSTableManager::get: tables.iter_mut().rev(), first table that has the key
SSTableManager_get(tables, fs, key) == get_from(tables, fs, key, Len(tables))

\* the entry SSTableManager::listen sends back for Get:
\* get(&key).await.unwrap().map(|pair| pair.value).flatten()
listen_get_entry(tables, fs, key) ==
    CHOOSE entry \in
        {Flatten(IF IsSome(got.pair) THEN Some(Unwrap(got.pair).value) ELSE None) :
            got \in {SSTableManager_get(tables, fs, key)}} : TRUE

RECURSIVE sum_sizes(_)
sum_sizes(tables) ==
    IF tables = <<>> THEN 0 ELSE Head(tables).size + sum_sizes(Tail(tables))

\* a trigger that also fires when the two ratios are equal
should_compact_or_equal(tables, percent) ==
    IF tables = <<>> THEN None
    ELSE LET oldest_table_size == tables[1].size
             tables_total_size == sum_sizes(tables)
             newer_tables_total_size == tables_total_size - oldest_table_size
         IN IF newer_tables_total_size * 100 >= percent * oldest_table_size
            THEN Some(tables_total_size) ELSE None

\* a trigger that compares the size of all tables with the oldest one
should_compact_total(tables, percent) ==
    IF tables = <<>> THEN None
    ELSE LET oldest_table_size == tables[1].size
             tables_total_size == sum_sizes(tables)
         IN IF tables_total_size * 100 > percent * oldest_table_size
            THEN Some(tables_total_size) ELSE None

\* SSTableManager::should_compact of a manager constructed with
\* compaction_trigger_ratio = percent (new stores percent as f64 / 100.0):
\* Some(total size) when newer / oldest > percent / 100 in f64.  Both
\* quotients are correctly rounded, so for sizes far below 2^53 the
\* comparison is the one of the exact fractions, newer * 100 > percent *
\* oldest; x / 0 is +inf for x > 0 and NaN, which compares false, for x = 0.
should_compact_at(tables, percent) ==
    IF tables = <<>> THEN None
    ELSE LET oldest_table_size == tables[1].size
             tables_total_size == sum_sizes(tables)
             newer_tables_total_size == tables_total_size - oldest_table_size
             greater == IF oldest_table_size = 0
                        THEN newer_tables_total_size > 0
                        ELSE newer_tables_total_size * 100 > percent * oldest_table_size
         IN IF greater THEN Some(tables_total_size) ELSE None

\* SSTableManager::should_compact of the store's manager
should_compact(tables) == should_compact_at(tables, TriggerPercent)

\* Iterator::next on the rest of a table's records
iter_next(it) == IF it = <<>> THEN None ELSE Some(Head(it))
iter_rest(it) == IF it = <<>> THEN <<>> ELSE Tail(it)

\* a minimum that keeps the last of several equal minima
min_candidate_last(merge_candidates) ==
    LET live == {i \in 1..Len(merge_candidates) : IsSome(merge_candidates[i])}
    IN CHOOSE i \in live :
          \A j \in live :
              \/ KeyLt(Unwrap(merge_candidates[i]).key, Unwrap(merge_candidates[j]).key)
              \/ (Unwrap(merge_candidates[i]).key = Unwrap(merge_candidates[j]).key /\ i >= j)

\* min_by_key over the candidates that are Some: the first index whose key
\* is minimal (the first of several equal minima is kept)
min_candidate(merge_candidates) ==
    LET live == {i \in 1..Len(merge_candidates) : IsSome(merge_candidates[i])}
    IN CHOOSE i \in live :
          \A j \in live :
              \/ KeyLt(Unwrap(merge_candidates[i]).key, Unwrap(merge_candidates[j]).key)
              \/ (Unwrap(merge_candidates[i]).key = Unwrap(merge_candidates[j]).key /\ i <= j)

RECURSIVE merge_loop(_, _, _)
\* the loop of SSTableManager::compact_inner; panic is the unwrap of a
\* minimum taken over no candidate
merge_loop(merge_candidates, table_iterators, pairs) ==
    IF \A i \in 1..Len(merge_candidates) : merge_candidates[i] = None
    THEN [panic |-> TRUE, pairs |-> pairs]
    ELSE LET min_pair == Unwrap(merge_candidates[min_candidate(merge_candidates)])
             min_key == min_pair.key
             advance(i) == IsSome(merge_candidates[i]) /\ Unwrap(merge_candidates[i]).key = min_key
             next_candidates == [i \in 1..Len(merge_candidates) |->
                                    IF advance(i) THEN iter_next(table_iterators[i])
                                    ELSE merge_candidates[i]]
             next_iterators == [i \in 1..Len(merge_candidates) |->
                                    IF advance(i) THEN iter_rest(table_iterators[i])
                                    ELSE table_iterators[i]]
         IN IF \A i \in 1..Len(next_candidates) : next_candidates[i] = None
            THEN [panic |-> FALSE, pairs |-> Append(pairs, min_pair)]
            ELSE CHOOSE result \in
                     {merge_loop(candidates, iterators, merged) :
                         candidates \in {next_candidates}, iterators \in {next_iterators},
                         merged \in {Append(pairs, min_pair)}} : TRUE

\* the order in which SSTableManager::compact hands the tables to
\* compact_inner: tables.iter_mut().rev(), the newest first
newest_first(inputs) == [i \in 1..Len(inputs) |-> inputs[Len(inputs) + 1 - i]]

\* SSTableManager::compact_inner; table_iterators[1] is the newest table
compact_inner(table_iterators) ==
    merge_loop([i \in 1..Len(table_iterators) |-> iter_next(table_iterators[i])],
               [i \in 1..Len(table_iterators) |-> iter_rest(table_iterators[i])],
               <<>>)

\* ---------------------------------------------------------------------
\* MemTable (memtable/mod.rs): pure parts.  The map is a function from
\* Keys to Option<Option<Vec<u8>>>: None for a key not in the BTreeMap,
\* Some(None) for a deleted key, Some(Some(v)) for a live one.
\* ---------------------------------------------------------------------
EmptyMap == [k \in Keys |-> None]

\* MemTable::get: map.get(key).cloned().flatten()
MemTable_get(map_, key) == Flatten(map_[key])

\* a put that keeps the entry a key already has (entry().or_insert)
put_map_keeps_old(map_, key, value) ==
    IF map_[key] = None THEN [map_ EXCEPT ![key] = Some(Some(value))] ELSE map_

\* MemTable::put: map.insert(key, Some(value)), and what the call returns
put_map(map_, key, value) == [map_ EXCEPT ![key] = Some(Some(value))]
put_result(map_, key) == Flatten(map_[key])

\* the usize subtraction new_value_len - value.len() of MemTable::put
\* overflows: the new value is shorter than the live one it replaces
put_overflows(map_, key, value) ==
    /\ IsSome(map_[key])
    /\ IsSome(Unwrap(map_[key]))
    /\ Len(value) < Len(Unwrap(Unwrap(map_[key])))

\* MemTable::put: actual_size after the fetch_add (which wraps, so that a
\* wrapped difference still adds up to the true sum)
put_size(map_, size, key, value) ==
    IF map_[key] = None THEN size + Len(key) + Len(value)
    ELSE IF Unwrap(map_[key]) = None THEN size + Len(value)
    ELSE size + Len(value) - Len(Unwrap(Unwrap(map_[key])))

\* MemTable::delete: map.insert(key, None), the fetch_sub, the result
delete_map(map_, key) == [map_ EXCEPT ![key] = Some(None)]
delete_result(map_, key) == Flatten(map_[key])
\* a delete that also takes the length of the key off the counter
delete_size_with_key(map_, size, key) ==
    IF IsSome(Flatten(map_[key]))
    THEN size - Len(key) - Len(Unwrap(Flatten(map_[key]))) ELSE size

delete_size(map_, size, key) ==
    IF IsSome(Flatten(map_[key])) THEN size - Len(Unwrap(Flatten(map_[key]))) ELSE size

\* a flush test that also holds when the counter equals size_limit
reaches_limit(size) == size >= SizeLimit

\* MemTable::put: self.actual_size.load() > self.size_limit (a counter below
\* zero stands for one that wrapped around, 2^64 + size)
exceeds_limit(size) == size > SizeLimit \/ size < 0

\* MemTable::flush: the pairs collected from map.iter(), in key order
flush_pairs(map_) ==
    LET keys == SortedKeys({k \in Keys : map_[k] # None})
    IN [i \in 1..Len(keys) |-> InternalPair(keys[i], Unwrap(map_[keys[i]]))]

\* ---------------------------------------------------------------------
\* State
\* ---------------------------------------------------------------------
VARIABLES
    map,             \* MemTable::inner
    actual_size,     \* MemTable::actual_size
    mem_pc,          \* MemTable task: "recv", "flushing" (awaiting the ack), "panicked"
    mem_cur,         \* the put whose flush is awaited: its caller and its result
    memtable_rx,     \* channel router -> MemTable
    tables,          \* SSTableManager::tables, oldest first
    files,           \* the data directory: N of table_N -> bytes
    sstable_rx,      \* channel router and MemTable -> SSTableManager
    mgr_pc,          \* manager task: "recv", "create", "compact", "compact_delete", "ack", "panicked"
    mgr_cur,         \* the Flush being handled and the locals of compact()
    flush_reply,     \* oneshot of the pending Flush: "none" or "acked"
    cl_pc,           \* router call of each client: "idle", "wait_mem", "mem_replied",
                     \* "wait_mgr", "closed" (its reply sender was dropped)
    cl_cmd,          \* its command
    cl_reply,        \* the MemTable's reply to it
    ret,             \* the call that returned in the last step, if one did: its
                     \* command and its result
    watch,           \* a write that returned, on a key no write was issued on since
    overflow_checks, \* the build panics on integer overflow (debug) or wraps (release)
    lock,            \* MemTable::inner, the RwLock: the task holding it for writing
    call,            \* tasks that call put and delete on the MemTable themselves:
                     \* the position and the locals of each
    faults,          \* I/O errors injected so far
    nflush,          \* flushes started so far
    fn_in,           \* input of a function that is checked on its own
    fn_out           \* its result, once applied

vars == <<map, actual_size, mem_pc, mem_cur, memtable_rx, tables, files, sstable_rx,
          mgr_pc, mgr_cur, flush_reply, cl_pc, cl_cmd, cl_reply, ret,
          watch, overflow_checks, lock, call, faults, nflush, fn_in, fn_out>>

\* what no step of the store changes
fixedVars == <<overflow_checks, lock, call, fn_in, fn_out>>

memVars == <<map, actual_size, mem_pc, mem_cur>>
mgrVars == <<tables, files, mgr_pc, mgr_cur, flush_reply>>

Command(op, key, value) == [op |-> op, key |-> key, value |-> value]
Commands ==
    {Command("Get", k, <<>>) : k \in Keys}
    \cup {Command("Delete", k, <<>>) : k \in Keys}
    \cup UNION {{Command("Put", k, v) : v \in PutValues(k)} : k \in Keys}

NoWrite == [kind |-> "none", val |-> <<>>]
NoWatch == [key |-> <<>>, kind |-> "none", val |-> <<>>]
NoCommand == [op |-> "none", key |-> <<>>, value |-> <<>>, expect |-> NoWrite]
\* a call returns: what it was and what it returned ("ok" with the entry, or
\* "failed" when a channel was closed)
Returned(cmd, kind, entry) == [cmd |-> cmd, kind |-> kind, val |-> entry]
NoPut == [client |-> 0, prev |-> None]
NoReturn == Returned(NoCommand, "none", None)
NoFlush == [pairs |-> <<>>, size |-> 0, pre_tables |-> <<>>, created |-> FALSE,
            compacting |-> FALSE, inputs |-> <<>>, merged |-> <<>>, compacted_size |-> 0, i |-> 0]

GetMessage(key, c) == [op |-> "Get", key |-> key, client |-> c, pairs |-> <<>>, size |-> 0]
FlushMessage(pairs, size) == [op |-> "Flush", key |-> <<>>, client |-> 0, pairs |-> pairs, size |-> size]

\* a task that is in no call of the MemTable (n counts the calls it made)
NoCall == [pc |-> "idle", cmd |-> Command("none", <<>>, <<>>), prev |-> None, pairs |-> <<>>,
           n |-> 0]

\* the store with the tasks that will call its router, an empty MemTable
\* and a manager that lists no table, on a data directory holding the files fs
InitStoreOn(clients, fs) ==
    /\ map = EmptyMap
    /\ actual_size = 0
    /\ mem_pc = "recv"
    /\ mem_cur = NoPut
    /\ memtable_rx = <<>>
    /\ tables = <<>>
    /\ files = fs
    /\ sstable_rx = <<>>
    /\ mgr_pc = "recv"
    /\ mgr_cur = NoFlush
    /\ flush_reply = "none"
    /\ cl_pc = [c \in clients |-> "idle"]
    /\ cl_cmd = [c \in clients |-> NoCommand]
    /\ cl_reply = [c \in clients |-> None]
    /\ ret = NoReturn
    /\ watch = NoWatch
    /\ overflow_checks \in BOOLEAN
    /\ lock = None
    /\ call = [t \in Callers |-> NoCall]
    /\ faults = 0
    /\ nflush = 0

\* the store after construction on an empty data directory
InitStoreWith(clients) == InitStoreOn(clients, <<>>)

InitStore == InitStoreWith(Clients)

Init ==
    /\ InitStore
    /\ fn_in = <<>>
    /\ fn_out = None

\* ---------------------------------------------------------------------
\* Command router (spec section 4.7): Handler::apply, one call per client
\* ---------------------------------------------------------------------
IsWrite(cmd) == cmd.op \in {"Put", "Delete"}

\* another client has a write on key under way
OtherWriteInFlight(c, key) ==
    \E d \in DOMAIN cl_pc \ {c} : cl_pc[d] # "idle" /\ IsWrite(cl_cmd[d]) /\ cl_cmd[d].key = key

\* the command as the call of a client holds it: a Get remembers the write
\* on its key that had returned when it was issued
Issued(cmd) ==
    [op |-> cmd.op, key |-> cmd.key, value |-> cmd.value,
     expect |-> IF cmd.op = "Get" /\ watch.kind # "none" /\ watch.key = cmd.key
                THEN [kind |-> watch.kind, val |-> watch.val]
                ELSE NoWrite]

\* a write that is issued voids what is known of its key, for the key
\* itself and for the reads under way on it
VoidedBy(cmd, held) ==
    IF IsWrite(cmd) /\ held.key = cmd.key THEN [held EXCEPT !.expect = NoWrite] ELSE held

IssueWrite(cmd) ==
    watch' = IF IsWrite(cmd) /\ watch.kind # "none" /\ watch.key = cmd.key THEN NoWatch
             ELSE watch

\* the call of client c returns
ClDone(c, kind, entry) ==
    /\ cl_pc' = [cl_pc EXCEPT ![c] = "idle"]
    /\ cl_cmd' = [cl_cmd EXCEPT ![c] = NoCommand]
    /\ cl_reply' = [cl_reply EXCEPT ![c] = None]
    /\ ret' = Returned(cl_cmd[c], kind, entry)

\* step 1: send the command to the MemTable and await its reply
ClIssue(c, cmd) ==
    /\ cl_pc[c] = "idle"
    /\ mem_pc # "panicked"
    /\ Len(memtable_rx) < ChannelCap
    /\ memtable_rx' = Append(memtable_rx, [cmd |-> cmd, client |-> c])
    /\ cl_pc' = [cl_pc EXCEPT ![c] = "wait_mem"]
    /\ cl_cmd' = [d \in DOMAIN cl_cmd |-> IF d = c THEN Issued(cmd) ELSE VoidedBy(cmd, cl_cmd[d])]
    /\ IssueWrite(cmd)
    /\ ret' = NoReturn
    /\ UNCHANGED <<memVars, mgrVars, sstable_rx, cl_reply, fixedVars, faults, nflush>>

\* step 1 when the MemTable task is gone: the request fails
ClIssueClosed(c, cmd) ==
    /\ cl_pc[c] = "idle"
    /\ mem_pc = "panicked"
    /\ ret' = Returned(Issued(cmd), "failed", None)
    /\ cl_cmd' = [d \in DOMAIN cl_cmd |-> VoidedBy(cmd, cl_cmd[d])]
    /\ IssueWrite(cmd)
    /\ UNCHANGED <<memVars, mgrVars, memtable_rx, sstable_rx, cl_pc, cl_reply,
                   fixedVars, faults, nflush>>

\* steps 2 and 4: a value from the MemTable, or None for a write, is returned
ClReturn(c) ==
    /\ cl_pc[c] = "mem_replied"
    /\ IsSome(cl_reply[c]) \/ cl_cmd[c].op # "Get"
    /\ ClDone(c, "ok", cl_reply[c])
    /\ \/ /\ IsWrite(cl_cmd[c]) /\ ~OtherWriteInFlight(c, cl_cmd[c].key)
          /\ watch' = [key |-> cl_cmd[c].key,
                       kind |-> IF cl_cmd[c].op = "Put" THEN "put" ELSE "del",
                       val |-> cl_cmd[c].value]
       \/ /\ ~IsWrite(cl_cmd[c]) \/ OtherWriteInFlight(c, cl_cmd[c].key) \/ watch.kind # "none"
          /\ watch' = watch
    /\ UNCHANGED <<memVars, mgrVars, memtable_rx, sstable_rx, fixedVars, faults,
                   nflush>>

\* step 3: the MemTable replied None to a Get: forward it to the manager
ClForward(c) ==
    /\ cl_pc[c] = "mem_replied"
    /\ cl_reply[c] = None /\ cl_cmd[c].op = "Get"
    /\ mgr_pc # "panicked"
    /\ Len(sstable_rx) < ChannelCap
    /\ sstable_rx' = Append(sstable_rx, GetMessage(cl_cmd[c].key, c))
    /\ cl_pc' = [cl_pc EXCEPT ![c] = "wait_mgr"]
    /\ ret' = NoReturn
    /\ UNCHANGED <<memVars, mgrVars, memtable_rx, cl_cmd, cl_reply, watch,
                   fixedVars, faults, nflush>>

\* step 3 when the manager task is gone: the request fails
ClForwardClosed(c) ==
    /\ cl_pc[c] = "mem_replied"
    /\ cl_reply[c] = None /\ cl_cmd[c].op = "Get"
    /\ mgr_pc = "panicked"
    /\ ClDone(c, "failed", None)
    /\ UNCHANGED <<memVars, mgrVars, memtable_rx, sstable_rx, watch, fixedVars,
                   faults, nflush>>

\* the reply sender of the call was dropped by a task that panicked
ClClosed(c) ==
    /\ cl_pc[c] = "closed"
    /\ ClDone(c, "failed", None)
    /\ UNCHANGED <<memVars, mgrVars, memtable_rx, sstable_rx, watch, fixedVars,
                   faults, nflush>>

\* ---------------------------------------------------------------------
\* MemTable task (MemTable::listen): one message per step
\* ---------------------------------------------------------------------
MemHead == Head(memtable_rx)

\* a reply that is sent and never wakes the call that awaits it
MemReplyLost(c, entry) ==
    /\ cl_reply' = [cl_reply EXCEPT ![c] = entry]
    /\ cl_pc' = cl_pc

\* tx.send(entry): the reply reaches the router call of client c
MemReply(c, entry) ==
    /\ cl_reply' = [cl_reply EXCEPT ![c] = entry]
    /\ cl_pc' = [cl_pc EXCEPT ![c] = "mem_replied"]

\* Command::Get
MemGet ==
    /\ mem_pc = "recv" /\ memtable_rx # <<>>
    /\ MemHead.cmd.op = "Get"
    /\ memtable_rx' = Tail(memtable_rx)
    /\ MemReply(MemHead.client, MemTable_get(map, MemHead.cmd.key))
    /\ ret' = NoReturn
    /\ UNCHANGED <<memVars, mgrVars, sstable_rx, cl_cmd, watch, fixedVars,
                   faults, nflush>>

\* Command::Delete
MemDelete ==
    /\ mem_pc = "recv" /\ memtable_rx # <<>>
    /\ MemHead.cmd.op = "Delete"
    /\ memtable_rx' = Tail(memtable_rx)
    /\ map' = delete_map(map, MemHead.cmd.key)
    /\ actual_size' = delete_size(map, actual_size, MemHead.cmd.key)
    /\ MemReply(MemHead.client, delete_result(map, MemHead.cmd.key))
    /\ ret' = NoReturn
    /\ UNCHANGED <<mem_pc, mem_cur, mgrVars, sstable_rx, cl_cmd, watch,
                   fixedVars, faults, nflush>>

\* the put at the head of the channel gets past the counter update
PutProceeds ==
    /\ mem_pc = "recv" /\ memtable_rx # <<>>
    /\ MemHead.cmd.op = "Put"
    /\ ~(overflow_checks /\ put_overflows(map, MemHead.cmd.key, MemHead.cmd.value))

\* Command::Put that leaves the counter within size_limit
MemPut ==
    /\ PutProceeds
    /\ ~exceeds_limit(put_size(map, actual_size, MemHead.cmd.key, MemHead.cmd.value))
    /\ memtable_rx' = Tail(memtable_rx)
    /\ map' = put_map(map, MemHead.cmd.key, MemHead.cmd.value)
    /\ actual_size' = put_size(map, actual_size, MemHead.cmd.key, MemHead.cmd.value)
    /\ MemReply(MemHead.client, put_result(map, MemHead.cmd.key))
    /\ ret' = NoReturn
    /\ UNCHANGED <<mem_pc, mem_cur, mgrVars, sstable_rx, cl_cmd, watch,
                   fixedVars, faults, nflush>>

\* Command::Put that raises the counter above size_limit: flush() takes the
\* pairs of the map and sends Flush to the manager, then awaits the reply
MemPutFlush ==
    /\ PutProceeds
    /\ exceeds_limit(put_size(map, actual_size, MemHead.cmd.key, MemHead.cmd.value))
    /\ nflush < MaxFlushes
    /\ memtable_rx' = Tail(memtable_rx)
    /\ map' = put_map(map, MemHead.cmd.key, MemHead.cmd.value)
    /\ actual_size' = put_size(map, actual_size, MemHead.cmd.key, MemHead.cmd.value)
    /\ IF mgr_pc = "panicked"
       THEN sstable_rx' = sstable_rx
       ELSE /\ Len(sstable_rx) < ChannelCap
            /\ sstable_rx' = Append(sstable_rx, FlushMessage(flush_pairs(map'), actual_size'))
    /\ mem_pc' = "flushing"
    /\ mem_cur' = [client |-> MemHead.client, prev |-> put_result(map, MemHead.cmd.key)]
    /\ flush_reply' = "none"
    /\ nflush' = nflush + 1
    /\ ret' = NoReturn
    /\ UNCHANGED <<tables, files, mgr_pc, mgr_cur, cl_pc, cl_cmd, cl_reply, watch,
                   fixedVars, faults>>

\* the reply of the Flush arrived, or its sender was dropped: map.clear(),
\* actual_size.store(0), and put returns
MemFlushDone ==
    /\ mem_pc = "flushing"
    /\ flush_reply = "acked" \/ mgr_pc = "panicked"
    /\ map' = EmptyMap
    /\ actual_size' = 0
    /\ mem_pc' = "recv"
    /\ MemReply(mem_cur.client, mem_cur.prev)
    /\ mem_cur' = NoPut
    /\ flush_reply' = "none"
    /\ ret' = NoReturn
    /\ UNCHANGED <<memtable_rx, tables, files, mgr_pc, mgr_cur, sstable_rx, cl_cmd, watch,
                   fixedVars, faults, nflush>>

\* Command::Put whose new value is shorter than the live one, in a build with
\* overflow checks: new_value_len - value.len() panics and the task ends; the
\* channel and the reply senders of the queued requests are dropped
MemPutPanic ==
    /\ mem_pc = "recv" /\ memtable_rx # <<>>
    /\ MemHead.cmd.op = "Put"
    /\ overflow_checks /\ put_overflows(map, MemHead.cmd.key, MemHead.cmd.value)
    /\ mem_pc' = "panicked"
    /\ memtable_rx' = <<>>
    /\ cl_pc' = [c \in DOMAIN cl_pc |-> IF cl_pc[c] = "wait_mem" THEN "closed" ELSE cl_pc[c]]
    /\ ret' = NoReturn
    /\ UNCHANGED <<map, actual_size, mem_cur, mgrVars, sstable_rx, cl_cmd, cl_reply,
                   watch, fixedVars, faults, nflush>>

\* ---------------------------------------------------------------------
\* SSTableManager task (SSTableManager::listen)
\* ---------------------------------------------------------------------
MgrHead == Head(sstable_rx)

\* the task panics: the channel and the reply senders of the queued requests
\* (and of the one being served) are dropped
MgrPanic ==
    /\ mgr_pc' = "panicked"
    /\ sstable_rx' = <<>>
    /\ cl_pc' = [c \in DOMAIN cl_pc |-> IF cl_pc[c] = "wait_mgr" THEN "closed" ELSE cl_pc[c]]

\* Command::Get served
MgrGet ==
    /\ mgr_pc = "recv" /\ sstable_rx # <<>>
    /\ MgrHead.op = "Get"
    /\ SSTableManager_get(tables, files, MgrHead.key).ok
    /\ sstable_rx' = Tail(sstable_rx)
    /\ ClDone(MgrHead.client, "ok", listen_get_entry(tables, files, MgrHead.key))
    /\ UNCHANGED <<memVars, memtable_rx, mgrVars, watch, fixedVars, faults,
                   nflush>>

\* Command::Get when a read fails: get(..).await.unwrap() panics
MgrGetFail ==
    /\ mgr_pc = "recv" /\ sstable_rx # <<>>
    /\ MgrHead.op = "Get"
    /\ tables # <<>>
    /\ faults < MaxFaults
    /\ faults' = faults + 1
    /\ MgrPanic
    /\ ret' = NoReturn
    /\ UNCHANGED <<memVars, memtable_rx, tables, files, mgr_cur, flush_reply, cl_cmd,
                   cl_reply, watch, fixedVars, nflush>>

\* Command::Flush received
MgrRecvFlush ==
    /\ mgr_pc = "recv" /\ sstable_rx # <<>>
    /\ MgrHead.op = "Flush"
    /\ sstable_rx' = Tail(sstable_rx)
    /\ mgr_pc' = "create"
    /\ mgr_cur' = [NoFlush EXCEPT !.pairs = MgrHead.pairs, !.size = MgrHead.size,
                                   !.pre_tables = tables]
    /\ ret' = NoReturn
    /\ UNCHANGED <<memVars, memtable_rx, tables, files, flush_reply, cl_pc, cl_cmd,
                   cl_reply, watch, fixedVars, faults, nflush>>

\* self.create(pairs, size) returns Ok
MgrCreate ==
    /\ mgr_pc = "create"
    /\ tables' = SSTableManager_create(tables, files, mgr_cur.pairs, mgr_cur.size).tables
    /\ files' = SSTableManager_create(tables, files, mgr_cur.pairs, mgr_cur.size).files
    /\ mgr_cur' = [mgr_cur EXCEPT !.created = TRUE]
    /\ mgr_pc' = "compact"
    /\ ret' = NoReturn
    /\ UNCHANGED <<memVars, memtable_rx, sstable_rx, flush_reply, cl_pc, cl_cmd, cl_reply,
                   watch, fixedVars, faults, nflush>>

\* self.create(pairs, size) returns Err (open failed, or write_all failed
\* after the file was created): the error is logged and listen goes on
MgrCreateFail(written) ==
    /\ mgr_pc = "create"
    /\ faults < MaxFaults
    /\ faults' = faults + 1
    /\ files' = IF written THEN PersistedFile_new_failed(files, new_table_path(tables))
                 ELSE files
    /\ mgr_pc' = "compact"
    /\ ret' = NoReturn
    /\ UNCHANGED <<memVars, memtable_rx, sstable_rx, tables, mgr_cur, flush_reply, cl_pc,
                   cl_cmd, cl_reply, watch, fixedVars, nflush>>

\* self.compact() when should_compact() is None
MgrCompactSkip ==
    /\ mgr_pc = "compact"
    /\ should_compact(tables) = None
    /\ mgr_pc' = "ack"
    /\ ret' = NoReturn
    /\ UNCHANGED <<memVars, memtable_rx, sstable_rx, tables, files, mgr_cur, flush_reply,
                   cl_pc, cl_cmd, cl_reply, watch, fixedVars, faults, nflush>>

\* the records of the tables in list order, the oldest table first
read_tables_oldest_first(tables_, fs, i) ==
    [j \in 1..i |-> SSTable_get_all(tables_[j], fs)]

\* the records of the tables, newest table first (tables.iter_mut().rev())
RECURSIVE read_tables(_, _, _)
read_tables(tables_, fs, i) ==
    IF i = 0 THEN <<>>
    ELSE <<SSTable_get_all(tables_[i], fs)>> \o read_tables(tables_, fs, i - 1)

\* self.compact(): the list is taken out of self.tables, every table is read
\* and the records are merged.  A file whose bytes do not decode (read_all
\* unwraps) and a merge of no record at all (compact_inner unwraps) panic.
MgrCompactRead ==
    /\ mgr_pc = "compact"
    /\ should_compact(tables) # None
    /\ tables' = <<>>
    /\ \E read \in {read_tables(tables, files, Len(tables))} :
       \E merge \in {compact_inner([i \in 1..Len(read) |-> read[i].pairs])} :
          IF \/ \E i \in 1..Len(read) : ~read[i].ok
             \/ merge.panic
          THEN /\ MgrPanic
               /\ UNCHANGED <<mgr_cur, cl_cmd, cl_reply>>
          ELSE /\ mgr_cur' = [mgr_cur EXCEPT !.compacting = TRUE,
                                              !.inputs = tables,
                                              !.merged = merge.pairs,
                                              !.compacted_size = Unwrap(should_compact(tables)),
                                              !.i = 1]
               /\ mgr_pc' = "compact_delete"
               /\ UNCHANGED <<sstable_rx, cl_pc, cl_cmd, cl_reply>>
    /\ ret' = NoReturn
    /\ UNCHANGED <<memVars, memtable_rx, files, flush_reply, watch, fixedVars, faults,
                   nflush>>

\* self.compact(): table.get_all() returns Err; compact returns it
MgrCompactReadFail ==
    /\ mgr_pc = "compact"
    /\ should_compact(tables) # None
    /\ faults < MaxFaults
    /\ faults' = faults + 1
    /\ mgr_cur' = [mgr_cur EXCEPT !.compacting = TRUE, !.inputs = tables]
    /\ tables' = <<>>
    /\ mgr_pc' = "ack"
    /\ ret' = NoReturn
    /\ UNCHANGED <<memVars, memtable_rx, sstable_rx, files, flush_reply, cl_pc, cl_cmd,
                   cl_reply, watch, fixedVars, nflush>>

\* self.compact(): table.delete() of the next input table
MgrCompactDelete ==
    /\ mgr_pc = "compact_delete"
    /\ mgr_cur.i <= Len(mgr_cur.inputs)
    /\ mgr_cur.inputs[mgr_cur.i].path \in DOMAIN files
    /\ files' = PersistedFile_delete(files, mgr_cur.inputs[mgr_cur.i].path)
    /\ mgr_cur' = [mgr_cur EXCEPT !.i = mgr_cur.i + 1]
    /\ ret' = NoReturn
    /\ UNCHANGED <<memVars, memtable_rx, sstable_rx, tables, mgr_pc, flush_reply, cl_pc,
                   cl_cmd, cl_reply, watch, fixedVars, faults, nflush>>

\* self.compact(): table.delete() returns Err; compact returns it
MgrCompactDeleteFail ==
    /\ mgr_pc = "compact_delete"
    /\ mgr_cur.i <= Len(mgr_cur.inputs)
    /\ \/ /\ faults < MaxFaults
          /\ faults' = faults + 1
       \/ /\ mgr_cur.inputs[mgr_cur.i].path \notin DOMAIN files
          /\ faults' = faults
    /\ mgr_pc' = "ack"
    /\ ret' = NoReturn
    /\ UNCHANGED <<memVars, memtable_rx, sstable_rx, tables, files, mgr_cur, flush_reply,
                   cl_pc, cl_cmd, cl_reply, watch, fixedVars, nflush>>

\* self.compact(): self.create(pairs, compacted_size) returns Ok
MgrCompactCreate ==
    /\ mgr_pc = "compact_delete"
    /\ mgr_cur.i > Len(mgr_cur.inputs)
    /\ tables' = SSTableManager_create(tables, files, mgr_cur.merged,
                                       mgr_cur.compacted_size).tables
    /\ files' = SSTableManager_create(tables, files, mgr_cur.merged,
                                      mgr_cur.compacted_size).files
    /\ mgr_pc' = "ack"
    /\ ret' = NoReturn
    /\ UNCHANGED <<memVars, memtable_rx, sstable_rx, mgr_cur, flush_reply, cl_pc, cl_cmd,
                   cl_reply, watch, fixedVars, faults, nflush>>

\* self.compact(): self.create(pairs, compacted_size) returns Err
MgrCompactCreateFail(written) ==
    /\ mgr_pc = "compact_delete"
    /\ mgr_cur.i > Len(mgr_cur.inputs)
    /\ faults < MaxFaults
    /\ faults' = faults + 1
    /\ files' = IF written THEN PersistedFile_new_failed(files, new_table_path(tables))
                 ELSE files
    /\ mgr_pc' = "ack"
    /\ ret' = NoReturn
    /\ UNCHANGED <<memVars, memtable_rx, sstable_rx, tables, mgr_cur, flush_reply, cl_pc,
                   cl_cmd, cl_reply, watch, fixedVars, nflush>>

\* tx.send(None): the completion of the Flush is notified
MgrAck ==
    /\ mgr_pc = "ack"
    /\ flush_reply' = "acked"
    /\ mgr_pc' = "recv"
    /\ mgr_cur' = NoFlush
    /\ ret' = NoReturn
    /\ UNCHANGED <<memVars, memtable_rx, sstable_rx, tables, files, cl_pc, cl_cmd,
                   cl_reply, watch, fixedVars, faults, nflush>>

\* ---------------------------------------------------------------------
\* Specifications
\* ---------------------------------------------------------------------
RouterNext ==
    \/ \E c \in Clients, cmd \in Commands : ClIssue(c, cmd)
    \/ \E c \in Clients, cmd \in Commands : ClIssueClosed(c, cmd)
    \/ \E c \in Clients : ClReturn(c)
    \/ \E c \in Clients : ClForward(c)
    \/ \E c \in Clients : ClClosed(c)

MemNext ==
    \/ MemGet
    \/ MemDelete
    \/ MemPut
    \/ MemPutFlush
    \/ MemFlushDone
    \/ MemPutPanic

MgrNext ==
    \/ MgrGet
    \/ MgrRecvFlush
    \/ MgrCreate
    \/ MgrCompactSkip
    \/ MgrCompactRead
    \/ MgrCompactDelete
    \/ MgrCompactCreate
    \/ MgrAck

FaultNext ==
    \/ MgrGetFail
    \/ \E c \in Clients : ClForwardClosed(c)
    \/ \E written \in BOOLEAN : MgrCreateFail(written)
    \/ MgrCompactReadFail
    \/ MgrCompactDeleteFail
    \/ \E written \in BOOLEAN : MgrCompactCreateFail(written)

StoreNext == RouterNext \/ MemNext \/ MgrNext

Next == StoreNext \/ FaultNext

\* the store, with I/O errors injected
Spec == Init /\ [][Next]_vars

\* the store when no I/O operation fails
SpecNoFault == Init /\ [][StoreNext]_vars

\* ---------------------------------------------------------------------
\* The merge of compaction on its own: fn_in is a list of input tables,
\* oldest first, each the records of one SSTable; fn_out the merged records
\* ---------------------------------------------------------------------
MergeKeys == {<<1>>, <<1, 2>>, <<2>>}

\* what a table holds: the keys it has, and those of them it has deleted
Shapes ==
    {[held |-> h, deleted |-> d] : h \in SUBSET MergeKeys, d \in SUBSET MergeKeys}

\* the records of a table of each shape: its keys ascending, each a
\* tombstone or live
ShapeRecords ==
    [sh \in Shapes |->
        LET keys == SortedKeys(sh.held)
        IN [j \in 1..Len(keys) |->
               InternalPair(keys[j], IF keys[j] \in sh.deleted THEN None ELSE Some(<<0>>))]]

\* the records of the i-th table: the live value of the i-th table is <<i>>,
\* which tells the tables apart
TableOf(i, held, deleted) ==
    LET records == ShapeRecords[[held |-> held, deleted |-> deleted]]
    IN [j \in 1..Len(records) |->
           IF records[j].value = None THEN records[j]
           ELSE InternalPair(records[j].key, Some(<<i>>))]

\* the input is one of the lists compact() can hand over: should_compact()
\* has fired, so there is a table, and a table with a record
InitMerge ==
    /\ InitStore
    /\ overflow_checks = FALSE
    /\ \E n \in 1..MaxTables :
           \E shape \in [1..n -> {x \in Shapes : x.deleted \subseteq x.held}] :
               /\ ~(\A i \in 1..n : shape[i].held = {})
               /\ fn_in = [i \in 1..n |-> TableOf(i, shape[i].held, shape[i].deleted)]
    /\ fn_out = None

\* compact(): the tables are read newest first and merged
MergeApply ==
    /\ fn_out = None
    /\ fn_out' = Some(compact_inner(newest_first(fn_in)))
    /\ UNCHANGED <<memVars, mgrVars, memtable_rx, sstable_rx, cl_pc, cl_cmd, cl_reply, ret,
                   watch, overflow_checks, lock, call, fn_in, faults, nflush>>

SpecMerge == InitMerge /\ [][MergeApply]_vars

\* ---------------------------------------------------------------------
\* Properties
\* ---------------------------------------------------------------------

\* a Get returned in the last step, issued after a write of kind on its key
\* had returned and with no later write issued on that key
GetReturnedAfter(kind) == ret.cmd.op = "Get" /\ ret.cmd.expect.kind = kind

\* C1: read-your-writes through the router.  When Put(k, v) with a non-empty
\* v has returned and no later write was issued on k, a Get(k) issued
\* afterwards returns v, whatever flushes and compactions take place in
\* between, as long as no I/O operation failed.
C1_ReadYourWrites ==
    (GetReturnedAfter("put") /\ ret.cmd.expect.val # <<>> /\ faults = 0)
        => (ret.kind = "ok" /\ ret.val = Some(ret.cmd.expect.val))

\* the records an SSTable was built from: the decoding of the part of its
\* file that the blocks of its index cover
TableRecords(table, fs) ==
    LET covered == IF table.index = <<>> THEN 0
                   ELSE table.index[Len(table.index)].position
                        + table.index[Len(table.index)].length
        bytes == fs[table.path]
    IN IF covered <= Len(bytes) THEN deserialize_from_bytes(SubSeq(bytes, 1, covered)).pairs
       ELSE <<>>

\* some SSTable of the manager holds a live record of key
LiveInSSTable(key) ==
    \E i \in 1..Len(tables) :
        \E j \in 1..Len(TableRecords(tables[i], files)) :
            /\ TableRecords(tables[i], files)[j].key = key
            /\ IsSome(TableRecords(tables[i], files)[j].value)

\* C2: a tombstone hides the SSTables.  When an SSTable holds a live record
\* of k and Delete(k) has returned with no later write issued on k, a Get(k)
\* through the router does not return a value.
C2_TombstoneHidesSSTable ==
    (GetReturnedAfter("del") /\ LiveInSSTable(ret.cmd.key) /\ ret.kind = "ok")
        => ret.val = None

\* C3: in the MemTable, a key whose latest operation is a delete (its map
\* entry is the tombstone) is answered by get with a result that differs from
\* the result for a key that was never written.
C3_DeleteIsVisible ==
    \A k \in Keys :
        map[k] = Some(None) => MemTable_get(map, k) # MemTable_get(EmptyMap, k)

\* C4: in the MemTable, a put of (k, v) that triggers no flush makes get(k)
\* return v, and a put or a delete on a key leaves the result of get for
\* every other key as it was; so get(k) is the value of the latest put on k
\* whenever the latest operation on k is a put.
C4_GetReturnsLatestPut ==
    [][/\ MemPut => MemTable_get(map', MemHead.cmd.key) = Some(MemHead.cmd.value)
       /\ (MemPut \/ MemDelete) =>
              \A k \in Keys \ {MemHead.cmd.key} : MemTable_get(map', k) = MemTable_get(map, k)]_vars

\* a put on one key was followed by a delete and a put on the other key,
\* with no flush: the first key still reads as put
C4_Witness ==
    /\ nflush = 0
    /\ map[<<1, 2>>] = Some(Some(<<9>>))
    /\ map[<<1>>] = Some(None)
    /\ MemTable_get(map, <<1, 2>>) = Some(<<9>>)

\* the entries of a map: a live entry with its value, a deleted one as a
\* tombstone
Entries(map_) == {InternalPair(k, Unwrap(map_[k])) : k \in {x \in Keys : map_[x] # None}}

\* pairs holds each element of entries once, in strictly ascending key order
IsAscendingListOf(pairs, entries) ==
    /\ {pairs[i] : i \in 1..Len(pairs)} = entries
    /\ \A i \in 1..(Len(pairs) - 1) : KeyLt(pairs[i].key, pairs[i + 1].key)

\* C5: when a flush completes, the MemTable answers None for every key and
\* its counter is 0, and the list of the manager is the list it had when the
\* Flush arrived plus exactly one new SSTable, whose records are the
\* pre-flush entries of the map in ascending key order.
C5_FlushAddsOneTable ==
    [][/\ MgrAck =>
              /\ Len(tables) = Len(mgr_cur.pre_tables) + 1
              /\ SubSeq(tables, 1, Len(mgr_cur.pre_tables)) = mgr_cur.pre_tables
              /\ IsAscendingListOf(TableRecords(tables[Len(tables)], files), Entries(map))
       /\ MemFlushDone =>
              /\ \A k \in Keys : MemTable_get(map', k) = None
              /\ actual_size' = 0]_vars

\* some SSTable of the manager holds a record of key
InSSTable(key) ==
    \E i \in 1..Len(tables) :
        \E j \in 1..Len(TableRecords(tables[i], files)) :
            TableRecords(tables[i], files)[j].key = key

\* C6: the MemTable clears its map at the end of a flush only if the manager
\* has stored the entries: every key of the map that is cleared has a record
\* in an SSTable of the manager.
C6_ClearsOnlyWhatIsStored ==
    [][MemFlushDone => \A k \in Keys : map[k] # None => InSSTable(k)]_vars

\* the records of every SSTable of the manager, oldest table first
AllRecords == [i \in 1..Len(tables) |-> TableRecords(tables[i], files)]

\* of the tables whose records are given, the record of the newest one that
\* contains key; None when none of them contains it
NewestRecordIn(records, key) ==
    LET holders == {i \in 1..Len(records) :
                       \E j \in 1..Len(records[i]) : records[i][j].key = key}
    IN IF holders = {} THEN None
       ELSE LET newest == CHOOSE i \in holders : \A j \in holders : j <= i
            IN Some(records[newest][CHOOSE j \in 1..Len(records[newest]) :
                                        records[newest][j].key = key])

\* C7: SSTableManager::get returns, for every key, the record of the newest
\* SSTable that contains the key, live or tombstone, and None only when no
\* SSTable contains it.
C7_ReadPrecedence ==
    LET records == AllRecords
    IN \A k \in Keys :
           SSTableManager_get(tables, files, k) = [ok |-> TRUE, pair |-> NewestRecordIn(records, k)]

\* two SSTables hold different records of one key and get returns the newer
\* one
C7_Witness ==
    /\ Len(tables) = 2
    /\ \E k \in Keys :
           /\ SSTable_get(tables[1], files, k).pair # None
           /\ SSTable_get(tables[2], files, k).pair # None
           /\ SSTable_get(tables[1], files, k).pair # SSTable_get(tables[2], files, k).pair
           /\ SSTableManager_get(tables, files, k).pair = SSTable_get(tables[2], files, k).pair

\* C8: the reply of the manager to Get{key} when the newest record of the key
\* is a tombstone differs from its reply when no SSTable contains the key.
C8_TombstoneReplyDiffersFromAbsent ==
    LET records == AllRecords
    IN \A k \in Keys :
           (IsSome(NewestRecordIn(records, k)) /\ Unwrap(NewestRecordIn(records, k)).value = None)
               => listen_get_entry(tables, files, k) # listen_get_entry(<<>>, files, k)

\* the keys of a list of records
KeysOf(pairs) == {pairs[i].key : i \in 1..Len(pairs)}

\* the record of key in the newest of the input tables that holds the key
NewestInput(inputs, key) ==
    LET holders == {i \in 1..Len(inputs) : key \in KeysOf(inputs[i])}
        newest == CHOOSE i \in holders : \A j \in holders : j <= i
    IN inputs[newest][CHOOSE j \in 1..Len(inputs[newest]) : inputs[newest][j].key = key]

\* C9: the output of a compaction holds exactly the keys that occur in at
\* least one input table, each once and in strictly ascending order, and the
\* record of each key is the one of the newest input table that holds the
\* key, a tombstone included.
C9_CompactionOutput ==
    fn_out # None =>
        LET out == Unwrap(fn_out)
        IN /\ ~out.panic
           /\ KeysOf(out.pairs) = UNION {KeysOf(fn_in[i]) : i \in 1..Len(fn_in)}
           /\ \A j \in 1..(Len(out.pairs) - 1) : KeyLt(out.pairs[j].key, out.pairs[j + 1].key)
           /\ \A j \in 1..Len(out.pairs) : out.pairs[j] = NewestInput(fn_in, out.pairs[j].key)

\* three tables were merged: a key live in the two older tables and deleted
\* in the newest came out as a tombstone, a key of the oldest table alone and
\* a key of the middle table alone came out with their values
C9_Witness ==
    /\ fn_out # None
    /\ fn_in = <<TableOf(1, {<<1>>, <<1, 2>>}, {}), TableOf(2, {<<1>>, <<2>>}, {}),
                 TableOf(3, {<<1>>}, {<<1>>})>>
    /\ Unwrap(fn_out).pairs = <<InternalPair(<<1>>, None), InternalPair(<<1, 2>>, Some(<<1>>)),
                                InternalPair(<<2>>, Some(<<2>>))>>

\* C10: a compaction that fails while reading an input table, deleting an
\* input file or writing the merged table leaves the list of the manager as
\* it was when the compaction started.
C10_CompactionAtomic ==
    [][/\ MgrCompactReadFail => tables' = tables
       /\ (MgrCompactDeleteFail \/ \E written \in BOOLEAN : MgrCompactCreateFail(written))
              => tables' = mgr_cur.inputs]_vars

\* C11: while a compaction is under way and its merged SSTable has not been
\* written, the file of every input SSTable still exists, so that every
\* record readable before the compaction is still in some existing file.
C11_InputsKeptUntilMergedWritten ==
    mgr_pc = "compact_delete" =>
        \A i \in 1..Len(mgr_cur.inputs) : mgr_cur.inputs[i].path \in DOMAIN files

\* ---------------------------------------------------------------------
\* The compaction trigger as a function of the table sizes
\* ---------------------------------------------------------------------
MaxTableSize == 6

\* values of compaction_trigger_ratio, in percent
TriggerPercents == {0, 25, 50, 100, 200}

\* lists of at most MaxTables table sizes, oldest first; a flushed table has
\* a size above size_limit, so no size is 0
SizeLists == UNION {[1..n -> 1..MaxTableSize] : n \in 0..MaxTables}

\* self.tables of a manager whose tables have the given sizes
TablesOfSizes(sizes) ==
    [i \in 1..Len(sizes) |-> [path |-> i - 1, index |-> <<>>, size |-> sizes[i]]]

InitTrigger ==
    /\ InitStore
    /\ overflow_checks = FALSE
    /\ fn_in \in [sizes : SizeLists, percent : TriggerPercents]
    /\ fn_out = None

\* manager.should_compact()
TriggerApply ==
    /\ fn_out = None
    /\ fn_out' = Some(should_compact_at(TablesOfSizes(fn_in.sizes), fn_in.percent))
    /\ UNCHANGED <<memVars, mgrVars, memtable_rx, sstable_rx, cl_pc, cl_cmd, cl_reply, ret,
                   watch, overflow_checks, lock, call, fn_in, faults, nflush>>

SpecTrigger == InitTrigger /\ [][TriggerApply]_vars

RECURSIVE SumOf(_)
SumOf(sizes) == IF sizes = <<>> THEN 0 ELSE Head(sizes) + SumOf(Tail(sizes))

\* C12: with S_old the size of the oldest table and S_newer the sum of the
\* sizes of the others, should_compact returns the total size exactly when
\* S_newer / S_old > percent / 100 (S_newer * 100 > percent * S_old, S_old
\* being positive), and None otherwise; it returns None for a list of zero
\* or one table.
C12_TriggerRule ==
    fn_out # None =>
        LET sizes == fn_in.sizes
            S_old == sizes[1]
            S_newer == SumOf(Tail(sizes))
        IN /\ Len(sizes) <= 1 => Unwrap(fn_out) = None
           /\ Len(sizes) >= 1 =>
                  Unwrap(fn_out) = IF S_newer * 100 > fn_in.percent * S_old
                                   THEN Some(S_old + S_newer) ELSE None

\* the trigger was evaluated on an oldest table of size 2 and a newer one of
\* size 3 at 100 percent and fired with the total size 5
C12_Witness ==
    /\ fn_in = [sizes |-> <<2, 3>>, percent |-> 100]
    /\ fn_out = Some(Some(5))

\* C13 as stated: at 50 percent, sizes [6,1] do not trigger and sizes
\* [4,1,1] trigger with output size 6.
C13_TriggerAtHalf ==
    (fn_out # None /\ fn_in.percent = 50) =>
        /\ fn_in.sizes = <<6, 1>> => Unwrap(fn_out) = None
        /\ fn_in.sizes = <<4, 1, 1>> => Unwrap(fn_out) = Some(6)

\* C13, amended: at 25 percent, sizes [6,1] do not trigger and sizes [4,1,1]
\* trigger with output size 6; at 50 percent sizes [4,1,1] do not trigger,
\* 2/4 not being greater than 0.5.
C13_TriggerAtQuarter ==
    fn_out # None =>
        /\ (fn_in.percent = 25 /\ fn_in.sizes = <<6, 1>>) => Unwrap(fn_out) = None
        /\ (fn_in.percent = 25 /\ fn_in.sizes = <<4, 1, 1>>) => Unwrap(fn_out) = Some(6)
        /\ (fn_in.percent = 50 /\ fn_in.sizes = <<4, 1, 1>>) => Unwrap(fn_out) = None

\* the trigger fired on sizes [4,1,1] at 25 percent with output size 6
C13_Witness ==
    /\ fn_in = [sizes |-> <<4, 1, 1>>, percent |-> 25]
    /\ fn_out = Some(Some(6))

\* the bytes of the live entries of a map: key length plus value length
RECURSIVE LiveBytes(_, _)
LiveBytes(map_, keys) ==
    IF keys = {} THEN 0
    ELSE LET k == CHOOSE x \in keys : TRUE
             bytes == IF IsSome(Flatten(map_[k]))
                      THEN Len(k) + Len(Unwrap(Flatten(map_[k]))) ELSE 0
         IN bytes + LiveBytes(map_, keys \ {k})

\* C14: as long as no flush has started, the counter of the MemTable equals
\* the sum of len(key) + len(value) over the live entries of the map, a
\* tombstone contributing 0.
C14_CounterIsLiveBytes ==
    (nflush = 0 /\ mem_pc = "recv") => actual_size = LiveBytes(map, Keys)

\* C15: the MemTable starts a flush only while handling a Put, and exactly
\* when the counter after the update of that Put is strictly greater than
\* size_limit: a Put that starts no flush leaves the counter within
\* size_limit, so the flush is started by the first Put that exceeds it; a
\* Delete starts no flush and sends nothing to the manager.
C15_FlushTrigger ==
    [][/\ (mem_pc = "recv" /\ mem_pc' = "flushing")
              => (MemHead.cmd.op = "Put" /\ actual_size' > SizeLimit)
       /\ (/\ mem_pc = "recv" /\ mem_pc' = "recv"
           /\ memtable_rx # <<>> /\ memtable_rx' = Tail(memtable_rx)
           /\ MemHead.cmd.op = "Put")
              => actual_size' <= SizeLimit
       /\ MemDelete => (mem_pc' = "recv" /\ sstable_rx' = sstable_rx)]_vars

\* the first flush was started, by a Put that raised the counter to
\* size_limit + 1, the smallest value above the limit
C15_Witness ==
    /\ mem_pc = "flushing"
    /\ nflush = 1
    /\ actual_size = SizeLimit + 1

\* C16: when the manager sends the completion acknowledgement of a Flush,
\* the SSTable of that flush has been appended to its list: every key of the
\* flush has a record in the tables, which a Get handled afterwards finds.
C16_AckAfterAppend ==
    [][MgrAck => \A i \in 1..Len(mgr_cur.pairs) :
                     IsSome(SSTableManager_get(tables, files, mgr_cur.pairs[i].key).pair)]_vars

\* C17: an I/O error while the manager serves a Get leaves the manager task
\* running with its SSTable list unchanged and ready to receive the next
\* message.
C17_GetErrorKeepsManager ==
    [][MgrGetFail => (mgr_pc' = "recv" /\ tables' = tables)]_vars

\* ---------------------------------------------------------------------
\* Restart: SSTableManager::new on a directory of table files
\* ---------------------------------------------------------------------
MaxFiles == 11

RECURSIVE decimal(_)
\* the ASCII digits of n, as format!("{}", n) writes them
decimal(n) == IF n < 10 THEN <<48 + n>> ELSE decimal(n \div 10) \o <<48 + (n % 10)>>

\* format!("table_{}", n): the bytes of the file name of table n
file_name(n) == <<116, 97, 98, 108, 101, 95>> \o decimal(n)

\* the size of a table: key length plus value length of its records
RECURSIVE pairs_size(_)
pairs_size(pairs) ==
    IF pairs = <<>> THEN 0
    ELSE Len(Head(pairs).key)
         + (IF IsSome(Head(pairs).value) THEN Len(Unwrap(Head(pairs).value)) ELSE 0)
         + pairs_size(Tail(pairs))

\* SSTable::open(path, block_stride) (spec section 4.4): the records of the
\* file are read and indexed
SSTable_open(path, fs, block_stride) ==
    LET decoded == PersistedFile_read_all(fs[path])
    IN [ok |-> decoded.ok,
        table |-> [path |-> path, index |-> Index_new(decoded.pairs, block_stride),
                   size |-> pairs_size(decoded.pairs)]]

\* SSTableManager::new: the entries of the directory sorted by path, each
\* opened and pushed on the list
SSTableManager_new(fs) ==
    LET names == SortedKeys({file_name(p) : p \in DOMAIN fs})
        paths == [i \in 1..Len(names) |-> CHOOSE p \in DOMAIN fs : file_name(p) = names[i]]
    IN [ok |-> \A i \in 1..Len(paths) : SSTable_open(paths[i], fs, BlockStride).ok,
        tables |-> [i \in 1..Len(paths) |-> SSTable_open(paths[i], fs, BlockStride).table]]

RECURSIVE flushed(_, _)
\* the manager and its directory after the flushes 1..i of a store whose
\* trigger ratio is too large for a compaction: flush j holds one record,
\* of key keys[j] with the value <<j>>
flushed(keys, i) ==
    IF i = 0 THEN [tables |-> <<>>, files |-> <<>>]
    ELSE LET before == flushed(keys, i - 1)
         IN SSTableManager_create(before.tables, before.files,
                                  <<InternalPair(keys[i], Some(<<i>>))>>, Len(keys[i]) + 1)

InitRestart ==
    /\ InitStore
    /\ overflow_checks = FALSE
    /\ \E n \in 1..MaxFiles : \E keys \in [1..n -> Keys] : fn_in = flushed(keys, n)
    /\ fn_out = None

\* the process is started again on the directory
Restart ==
    /\ fn_out = None
    /\ fn_out' = Some(SSTableManager_new(fn_in.files))
    /\ UNCHANGED <<memVars, mgrVars, memtable_rx, sstable_rx, cl_pc, cl_cmd, cl_reply, ret,
                   watch, overflow_checks, lock, call, fn_in, faults, nflush>>

SpecRestart == InitRestart /\ [][Restart]_vars

\* C18: SSTableManager::new rebuilds the list in creation order, oldest
\* first, and get returns for every key the record it returned before the
\* restart, for any number of table files.
C18_RestartKeepsOrder ==
    fn_out # None =>
        LET new == Unwrap(fn_out)
        IN /\ new.ok
           /\ \A i \in 1..Len(new.tables) : new.tables[i].path = fn_in.tables[i].path
           /\ \A k \in Keys : SSTableManager_get(new.tables, fn_in.files, k)
                                  = SSTableManager_get(fn_in.tables, fn_in.files, k)

\* ---------------------------------------------------------------------
\* The record codec as a function of a list of records
\* ---------------------------------------------------------------------
MaxRecords == 2

\* records: any key, a tombstone or a value
CodecKeys == {<<>>, <<1>>, <<1, 2>>}
CodecValues == {None, Some(<<>>), Some(<<7>>), Some(<<8, 8>>)}
CodecRecords == {InternalPair(k, v) : k \in CodecKeys, v \in CodecValues}

InitCodec ==
    /\ InitStore
    /\ overflow_checks = FALSE
    /\ fn_in \in UNION {[1..n -> CodecRecords] : n \in 0..MaxRecords}
    /\ fn_out = None

\* InternalPair::serialize_flatten(pairs)
SerializeApply ==
    /\ fn_out = None
    /\ fn_out' = Some([bytes |-> serialize_flatten(fn_in), decoded |-> None])
    /\ UNCHANGED <<memVars, mgrVars, memtable_rx, sstable_rx, cl_pc, cl_cmd, cl_reply, ret,
                   watch, overflow_checks, lock, call, fn_in, faults, nflush>>

\* InternalPair::deserialize_from_bytes(bytes)
DeserializeApply ==
    /\ fn_out # None
    /\ Unwrap(fn_out).decoded = None
    /\ fn_out' = Some([Unwrap(fn_out) EXCEPT
                          !.decoded = Some(deserialize_from_bytes(Unwrap(fn_out).bytes))])
    /\ UNCHANGED <<memVars, mgrVars, memtable_rx, sstable_rx, cl_pc, cl_cmd, cl_reply, ret,
                   watch, overflow_checks, lock, call, fn_in, faults, nflush>>

CodecNext == SerializeApply \/ DeserializeApply

SpecCodec == InitCodec /\ [][CodecNext]_vars

\* C19: decoding the concatenation of the encodings of the records of a
\* list succeeds and yields exactly the list.
C19_CodecRoundTrip ==
    (fn_out # None /\ Unwrap(fn_out).decoded # None) =>
        /\ Unwrap(Unwrap(fn_out).decoded).ok
        /\ Unwrap(Unwrap(fn_out).decoded).pairs = fn_in

\* the length and the bytes of the value of a record as they are encoded
EncodedValue(pair) == IF IsSome(pair.value) THEN Unwrap(pair.value) ELSE <<>>

\* b is the 8-byte little-endian encoding of n (n below 2^24)
IsLittleEndian8(b, n) ==
    /\ Len(b) = 8
    /\ \A i \in 1..8 : b[i] \in 0..255
    /\ b[1] + 256 * b[2] + 65536 * b[3] = n
    /\ \A i \in 4..8 : b[i] = 0

RECURSIVE EncodedLength(_)
EncodedLength(pairs) ==
    IF pairs = <<>> THEN 0
    ELSE 16 + Len(Head(pairs).key) + Len(EncodedValue(Head(pairs))) + EncodedLength(Tail(pairs))

\* C20: the encoding of a record is the 8-byte little-endian key length,
\* the 8-byte little-endian value length, the key bytes, then the value
\* bytes, 16 + len(key) + len(value) bytes in all; a tombstone has value
\* length 0 and no value bytes.  The encoding of a list has the sum of the
\* lengths of its records.
C20_RecordLayout ==
    fn_out # None =>
        LET bytes == Unwrap(fn_out).bytes
        IN /\ Len(bytes) = EncodedLength(fn_in)
           /\ Len(fn_in) = 1 =>
                  LET key == fn_in[1].key
                      value == EncodedValue(fn_in[1])
                  IN /\ IsLittleEndian8(SubSeq(bytes, 1, 8), Len(key))
                     /\ IsLittleEndian8(SubSeq(bytes, 9, 16), Len(value))
                     /\ SubSeq(bytes, 17, 16 + Len(key)) = key
                     /\ SubSeq(bytes, 17 + Len(key), Len(bytes)) = value
                     /\ fn_in[1].value = None => bytes = LE8(Len(key)) \o LE8(0) \o key

\* the record of key [1,2] with value [7] was encoded in 19 bytes
C20_Witness ==
    /\ fn_in = <<InternalPair(<<1, 2>>, Some(<<7>>))>>
    /\ fn_out # None
    /\ Unwrap(fn_out).bytes = <<2, 0, 0, 0, 0, 0, 0, 0, 1, 0, 0, 0, 0, 0, 0, 0, 1, 2, 7>>

\* ---------------------------------------------------------------------
\* Decoding a buffer that was cut short
\* ---------------------------------------------------------------------

\* the first cut bytes of the encoding of a list of records
InitTruncate ==
    /\ InitStore
    /\ overflow_checks = FALSE
    /\ \E n \in 0..MaxRecords : \E pairs \in [1..n -> CodecRecords] :
           \E cut \in 0..EncodedLength(pairs) : fn_in = [pairs |-> pairs, cut |-> cut]
    /\ fn_out = None

\* InternalPair::deserialize_from_bytes on the cut buffer
DeserializeTruncated ==
    /\ fn_out = None
    /\ fn_out' = Some(deserialize_from_bytes(
                          SubSeq(serialize_flatten(fn_in.pairs), 1, fn_in.cut)))
    /\ UNCHANGED <<memVars, mgrVars, memtable_rx, sstable_rx, cl_pc, cl_cmd, cl_reply, ret,
                   watch, overflow_checks, lock, call, fn_in, faults, nflush>>

SpecTruncate == InitTruncate /\ [][DeserializeTruncated]_vars

\* the offsets at which a record of the list ends (0 for the empty prefix)
RecordEnds(pairs) == {EncodedLength(SubSeq(pairs, 1, i)) : i \in 0..Len(pairs)}

\* C21: decoding a buffer that ends inside a record fails with an error and
\* returns no record; a buffer that ends where a record ends decodes to as
\* many records as it holds.
C21_TruncatedFails ==
    fn_out # None =>
        LET decoded == Unwrap(fn_out)
        IN IF fn_in.cut \in RecordEnds(fn_in.pairs)
           THEN /\ decoded.ok
                /\ EncodedLength(SubSeq(fn_in.pairs, 1, Len(decoded.pairs))) = fn_in.cut
           ELSE /\ ~decoded.ok
                /\ decoded.pairs = <<>>

\* two records were encoded, the buffer was cut inside the value bytes of
\* the second one, and decoding failed
C21_Witness ==
    /\ fn_in = [pairs |-> <<InternalPair(<<1>>, Some(<<7>>)), InternalPair(<<1, 2>>, Some(<<8, 8>>))>>,
                cut |-> 37]
    /\ fn_out # None
    /\ ~Unwrap(fn_out).ok

\* C22: the MemTable never holds a live entry whose value is the empty byte
\* string, such a Put being refused before it reaches the MemTable.
C22_NoEmptyLiveValue ==
    \A k \in Keys : map[k] # Some(Some(<<>>))

\* ---------------------------------------------------------------------
\* The sparse index as a function of the records, the stride and a key
\* ---------------------------------------------------------------------
MaxStride == 3

\* keys of the records of a table, and the keys looked up (one below and one
\* above all of them)
IndexKeys == {<<1>>, <<1, 2>>, <<2>>, <<3>>, <<3, 1>>}
LookupKeys == IndexKeys \cup {<<0>>, <<4>>}

\* the records of a table that holds the keys of S, sorted by key: a key of
\* two bytes is deleted, a key of one byte has itself as its value
IndexPairs(S) ==
    LET keys == SortedKeys(S)
    IN [i \in 1..Len(keys) |->
            InternalPair(keys[i], IF Len(keys[i]) = 2 THEN None ELSE Some(keys[i]))]

InitIndex ==
    /\ InitStore
    /\ overflow_checks = FALSE
    /\ fn_in \in [pairs : {IndexPairs(S) : S \in SUBSET IndexKeys},
                  block_stride : 1..MaxStride,
                  key : LookupKeys]
    /\ fn_out = None

\* Index::new(pairs, block_stride).get(key)
IndexGetApply ==
    /\ fn_out = None
    /\ fn_out' = Some(Index_get(Index_new(fn_in.pairs, fn_in.block_stride), fn_in.key))
    /\ UNCHANGED <<memVars, mgrVars, memtable_rx, sstable_rx, cl_pc, cl_cmd, cl_reply, ret,
                   watch, overflow_checks, lock, call, fn_in, faults, nflush>>

SpecIndex == InitIndex /\ [][IndexGetApply]_vars

\* block j of a file of records cut every stride records: the index of its
\* first record, its offset and its length in the file
BlockFirst(j, stride) == (j - 1) * stride + 1
BlockLast(pairs, j, stride) == IF j * stride < Len(pairs) THEN j * stride ELSE Len(pairs)
BlockExtent(pairs, j, stride) ==
    <<EncodedLength(SubSeq(pairs, 1, BlockFirst(j, stride) - 1)),
      EncodedLength(SubSeq(pairs, BlockFirst(j, stride), BlockLast(pairs, j, stride)))>>
BlockCount(pairs, stride) == (Len(pairs) + stride - 1) \div stride

\* C23: lookup(k) is NotFound when k is smaller than the first key of the
\* first block, and otherwise the offset and length of the block whose
\* first key is the greatest one <= k; for a key stored in block b it is
\* the extent of b.
C23_IndexLookup ==
    fn_out # None =>
        LET pairs == fn_in.pairs
            stride == fn_in.block_stride
            key == fn_in.key
            atOrBelow == {j \in 1..BlockCount(pairs, stride) :
                              KeyLe(pairs[BlockFirst(j, stride)].key, key)}
            stored == {i \in 1..Len(pairs) : pairs[i].key = key}
        IN /\ atOrBelow = {} => Unwrap(fn_out) = None
           /\ atOrBelow # {} =>
                  LET b == CHOOSE j \in atOrBelow : \A o \in atOrBelow : o <= j
                  IN Unwrap(fn_out) = Some(BlockExtent(pairs, b, stride))
           /\ \A i \in stored :
                  Unwrap(fn_out) = Some(BlockExtent(pairs, ((i - 1) \div stride) + 1, stride))

\* five records in blocks of two: the key [3], second record of the second
\* block, was looked up and the extent of that block came back
C23_Witness ==
    /\ fn_in = [pairs |-> IndexPairs(IndexKeys), block_stride |-> 2, key |-> <<3>>]
    /\ fn_out = Some(Some(<<36, 36>>))

\* C24: a Put or Delete the MemTable takes from its channel returns the
\* value that was live for its key immediately before the call, None when
\* the key was absent or deleted: the value is sent back at once, or kept
\* to be sent back when the flush the Put started is over.
C24_WritesReturnPrior ==
    [][(/\ mem_pc = "recv" /\ memtable_rx # <<>>
        /\ MemHead.cmd.op \in {"Put", "Delete"}
        /\ memtable_rx' # memtable_rx)
           => LET prior == Flatten(map[MemHead.cmd.key])
              IN \/ /\ mem_pc' = "recv"
                    /\ cl_pc'[MemHead.client] = "mem_replied"
                    /\ cl_reply'[MemHead.client] = prior
                 \/ /\ mem_pc' = "flushing"
                    /\ mem_cur'.client = MemHead.client
                    /\ mem_cur'.prev = prior]_vars

\* C25: the router forwards a command to the manager only when it is a Get
\* and the MemTable holds no entry for its key, neither a value nor a
\* tombstone: an entry of the MemTable shadows the key in every SSTable.
C25_RouterForwardsOnlyAbsent ==
    [][\A c \in Clients :
           ClForward(c) => (cl_cmd[c].op = "Get" /\ map[cl_cmd[c].key] = None)]_vars

\* C27: the size of every SSTable of the manager's list equals the sum of
\* len(key) + len(value) over the records of its file, a tombstone
\* contributing its key length only.
C27_SizeIsRecordBytes ==
    \A i \in 1..Len(tables) :
        (tables[i].path \in DOMAIN files /\ SSTable_get_all(tables[i], files).ok)
            => tables[i].size = pairs_size(SSTable_get_all(tables[i], files).pairs)

\* C28: the manager sends the completion acknowledgement of a Flush only
\* when creating the SSTable of that Flush succeeded; after a failed create
\* it drops the reply.
C28_NoAckAfterFailedCreate ==
    [][MgrAck => mgr_cur.created]_vars

\* ---------------------------------------------------------------------
\* The MemTable called from several tasks at once.  get, put, delete and
\* flush take &self, and the entries sit behind a tokio RwLock; a task's
\* call advances from one lock acquisition or atomic access to the next.
\* What a call does while it holds the write lock is one step, for no other
\* task can touch the map meanwhile and the accesses to the counter made
\* without the lock (the load and the store(0) of put) commute with it.
\* A counter below zero stands for the wrapped value 2^64 + actual_size.
\* ---------------------------------------------------------------------
WriteCommands == {cmd \in Commands : IsWrite(cmd)}

\* what the steps of a calling task leave alone
callFrame == <<mem_pc, mem_cur, memtable_rx, tables, files, mgr_pc, mgr_cur, cl_pc,
               cl_cmd, cl_reply, ret, watch, overflow_checks, faults, fn_in, fn_out>>

\* a lock that is granted to a writer whoever holds it
write_lock_ignored(lock_) == TRUE

\* self.inner.write().await is granted: no task holds the lock
write_lock_free(lock_) == lock_ = None

\* a task whose call returned
Idle(c) == [NoCall EXCEPT !.n = c.n]

\* a task calls put or delete and waits for the write lock
CallBegin(t, cmd) ==
    /\ call[t].pc = "idle"
    /\ call[t].n < MaxCalls
    /\ call' = [call EXCEPT ![t] = [NoCall EXCEPT !.pc = "lock", !.cmd = cmd,
                                                  !.n = call[t].n + 1]]
    /\ UNCHANGED <<map, actual_size, lock, sstable_rx, flush_reply, nflush, callFrame>>

\* MemTable::put up to drop(map): map.insert, the fetch_add
CallPut(t) ==
    /\ call[t].pc = "lock" /\ call[t].cmd.op = "Put"
    /\ write_lock_free(lock)
    /\ ~(overflow_checks /\ put_overflows(map, call[t].cmd.key, call[t].cmd.value))
    /\ map' = put_map(map, call[t].cmd.key, call[t].cmd.value)
    /\ actual_size' = put_size(map, actual_size, call[t].cmd.key, call[t].cmd.value)
    /\ call' = [call EXCEPT ![t].pc = "check",
                            ![t].prev = put_result(map, call[t].cmd.key)]
    /\ UNCHANGED <<lock, sstable_rx, flush_reply, nflush, callFrame>>

\* MemTable::put in a build with overflow checks, the new value shorter than
\* the live one: the entry is inserted, new_value_len - value.len() panics,
\* the guard is dropped as the task unwinds
CallPutPanic(t) ==
    /\ call[t].pc = "lock" /\ call[t].cmd.op = "Put"
    /\ write_lock_free(lock)
    /\ overflow_checks /\ put_overflows(map, call[t].cmd.key, call[t].cmd.value)
    /\ map' = put_map(map, call[t].cmd.key, call[t].cmd.value)
    /\ call' = [call EXCEPT ![t].pc = "panicked"]
    /\ UNCHANGED <<actual_size, lock, sstable_rx, flush_reply, nflush, callFrame>>

\* MemTable::put: the counter loaded after the lock was dropped does not
\* exceed size_limit, put returns
CallPutReturn(t) ==
    /\ call[t].pc = "check"
    /\ ~exceeds_limit(actual_size)
    /\ call' = [call EXCEPT ![t] = Idle(call[t])]
    /\ UNCHANGED <<map, actual_size, lock, sstable_rx, flush_reply, nflush, callFrame>>

\* MemTable::put: the counter loaded exceeds size_limit, put calls flush,
\* which waits for the write lock
CallPutExceeds(t) ==
    /\ call[t].pc = "check"
    /\ exceeds_limit(actual_size)
    /\ call' = [call EXCEPT ![t].pc = "flush_lock"]
    /\ UNCHANGED <<map, actual_size, lock, sstable_rx, flush_reply, nflush, callFrame>>

\* MemTable::flush: the write lock is granted and kept, the pairs of the map
\* are collected and sent with the counter, the reply is awaited.  A flush
\* that would carry a wrapped counter is not followed.
CallFlush(t) ==
    /\ call[t].pc = "flush_lock"
    /\ write_lock_free(lock)
    /\ nflush < MaxFlushes
    /\ actual_size >= 0
    /\ lock' = Some(t)
    /\ IF mgr_pc = "panicked"
       THEN sstable_rx' = sstable_rx
       ELSE /\ Len(sstable_rx) < ChannelCap
            /\ sstable_rx' = Append(sstable_rx, FlushMessage(flush_pairs(map), actual_size))
    /\ call' = [call EXCEPT ![t].pc = "flushing", ![t].pairs = flush_pairs(map)]
    /\ flush_reply' = "none"
    /\ nflush' = nflush + 1
    /\ UNCHANGED <<map, actual_size, callFrame>>

\* MemTable::flush: the reply arrived or its sender was dropped: map.clear(),
\* and the guard is dropped as flush returns
CallFlushDone(t) ==
    /\ call[t].pc = "flushing"
    /\ flush_reply = "acked" \/ mgr_pc = "panicked"
    /\ map' = EmptyMap
    /\ lock' = None
    /\ call' = [call EXCEPT ![t].pc = "reset"]
    /\ flush_reply' = "none"
    /\ UNCHANGED <<actual_size, sstable_rx, nflush, callFrame>>

\* MemTable::put after flush: actual_size.store(0), put returns
CallPutReset(t) ==
    /\ call[t].pc = "reset"
    /\ actual_size' = 0
    /\ call' = [call EXCEPT ![t] = Idle(call[t])]
    /\ UNCHANGED <<map, lock, sstable_rx, flush_reply, nflush, callFrame>>

\* MemTable::delete: the write lock is held for the whole call
CallDelete(t) ==
    /\ call[t].pc = "lock" /\ call[t].cmd.op = "Delete"
    /\ write_lock_free(lock)
    /\ map' = delete_map(map, call[t].cmd.key)
    /\ actual_size' = delete_size(map, actual_size, call[t].cmd.key)
    /\ call' = [call EXCEPT ![t] = Idle(call[t])]
    /\ UNCHANGED <<lock, sstable_rx, flush_reply, nflush, callFrame>>

CallsNext ==
    \/ \E t \in Callers, cmd \in WriteCommands : CallBegin(t, cmd)
    \/ \E t \in Callers : CallPut(t)
    \/ \E t \in Callers : CallPutPanic(t)
    \/ \E t \in Callers : CallPutReturn(t)
    \/ \E t \in Callers : CallPutExceeds(t)
    \/ \E t \in Callers : CallFlush(t)
    \/ \E t \in Callers : CallFlushDone(t)
    \/ \E t \in Callers : CallPutReset(t)
    \/ \E t \in Callers : CallDelete(t)
    \/ MgrRecvFlush
    \/ MgrCreate
    \/ MgrCompactSkip
    \/ MgrCompactRead
    \/ MgrCompactDelete
    \/ MgrCompactCreate
    \/ MgrAck

\* tasks calling put and delete on one MemTable, and its manager
SpecCalls == Init /\ [][CallsNext]_vars

\* C26: while a flush is between its snapshot and its map.clear(), it holds
\* the write lock and the map is the snapshot it sent: no put and no delete
\* took effect in between, so what clear removes is in the Flush message and
\* every later write lands in the cleared map.
C26_NoWriteInsideFlush ==
    \A t \in Callers :
        call[t].pc = "flushing" =>
            /\ lock = Some(t)
            /\ flush_pairs(map) = call[t].pairs

\* a flush awaits its reply while the other task waits for the lock with a write
C26_Witness ==
    \E t \in Callers, u \in Callers :
        /\ call[t].pc = "flushing"
        /\ call[u].pc = "lock"
        /\ mgr_pc = "ack"

\* the calls of put that found the counter above size_limit and did not
\* return yet
FlushingCalls == {t \in Callers : call[t].pc \in {"flush_lock", "flushing", "reset"}}

\* the Flush messages sent and not yet received
FlushMessages ==
    {sstable_rx[i] : i \in {j \in 1..Len(sstable_rx) : sstable_rx[j].op = "Flush"}}

\* every call of put and delete returned
CallsReturned == \A t \in Callers : call[t].pc \in {"idle", "panicked"}

\* C29, first part: one crossing of size_limit makes one put flush
C29_OneFlushPerCrossing == Cardinality(FlushingCalls) <= 1
\* C29, second part: no Flush message carries an empty list of pairs
C29_NoEmptyFlush == \A msg \in FlushMessages : msg.pairs # <<>>
\* C29, third part: once the calls returned, an empty map goes with a
\* counter of zero
C29_CounterSettles == (CallsReturned /\ map = EmptyMap) => actual_size = 0

\* C29: no double flush: when several puts run side by side, one crossing of
\* size_limit makes exactly one put flush, no Flush message carries an empty
\* list of pairs, and the counter agrees with the map once the calls returned.
C29_NoDoubleFlush ==
    /\ C29_OneFlushPerCrossing
    /\ C29_NoEmptyFlush
    /\ C29_CounterSettles

\* ---------------------------------------------------------------------
\* A Get through the router while the MemTable flushes: the first client
\* writes, the others issue a Get on a key that is live in the map while the
\* put of the first awaits the reply of its Flush.  No I/O operation fails.
\* ---------------------------------------------------------------------
InitRace ==
    /\ InitStoreWith(RaceClients)
    /\ fn_in = <<>>
    /\ fn_out = None

\* a reading client issues Get(key) during a flush whose snapshot holds a
\* live value for the key
RaceGet(c, key) ==
    /\ c # 1
    /\ mem_pc = "flushing"
    /\ IsSome(MemTable_get(map, key))
    /\ ClIssue(c, Command("Get", key, <<>>))

RaceNext ==
    \/ \E cmd \in WriteCommands : ClIssue(1, cmd)
    \/ \E cmd \in WriteCommands : ClIssueClosed(1, cmd)
    \/ \E c \in RaceClients, key \in Keys : RaceGet(c, key)
    \/ \E c \in RaceClients : ClReturn(c)
    \/ \E c \in RaceClients : ClForward(c)
    \/ \E c \in RaceClients : ClClosed(c)
    \/ MemNext
    \/ MgrNext

SpecRace == InitRace /\ [][RaceNext]_vars

\* C30: a Get(k) issued during a flush whose snapshot holds the live value v
\* of a put on k that had returned, with no write on k issued since, returns v.
C30_GetDuringFlushReturnsValue ==
    [][\A c \in RaceClients :
          (/\ cl_cmd[c].op = "Get"
           /\ cl_cmd[c].expect.kind = "put"
           /\ cl_pc[c] # "idle"
           /\ cl_pc'[c] = "idle")
          => (ret'.kind = "ok" /\ ret'.val = Some(cl_cmd[c].expect.val))]_vars

\* ---------------------------------------------------------------------
\* Progress of the store (no I/O error): the MemTable task, the manager task
\* and the router call of each client are tasks of the runtime, which polls
\* every task that can run; a client is free not to issue a command.  The
\* first client writes and the others read.  A put is issued only while the
\* flushes left cover the puts under way, so that no put waits for a flush
\* the bound MaxFlushes withholds.
\* ---------------------------------------------------------------------
\* the commands issued: every one but the delete of the longer key
LiveCommands == Commands \ {Command("Delete", <<1, 2>>, <<>>)}

PutsInFlight ==
    Cardinality({c \in RaceClients : cl_pc[c] # "idle" /\ cl_cmd[c].op = "Put"})

LiveIssue(c, cmd) ==
    /\ IsWrite(cmd) <=> c = 1
    /\ cmd.op = "Put" => nflush + PutsInFlight < MaxFlushes
    /\ ClIssue(c, cmd)

\* the router call of client c goes on after the reply or the closing of
\* its channel
ClStep(c) == ClReturn(c) \/ ClForward(c) \/ ClClosed(c)

LiveNext ==
    \/ \E c \in RaceClients, cmd \in LiveCommands : LiveIssue(c, cmd)
    \/ \E c \in RaceClients, cmd \in LiveCommands : ClIssueClosed(c, cmd)
    \/ \E c \in RaceClients : ClReturn(c)
    \/ \E c \in RaceClients : ClForward(c)
    \/ \E c \in RaceClients : ClClosed(c)
    \/ MemNext
    \/ MgrNext

SpecLive ==
    /\ InitRace
    /\ [][LiveNext]_vars
    /\ WF_vars(MemNext)
    /\ WF_vars(MgrNext)
    /\ \A c \in RaceClients : WF_vars(ClStep(c))

\* C31: progress: under weak fairness of the router calls, the MemTable task
\* and the manager task, and with no I/O error, every command handed to the
\* router is answered (its call returns, with the result or with the failure
\* of a closed channel), a put that flushes and compacts included; no task
\* waits for ever on a bounded channel.
C31_Progress == \A c \in RaceClients : (cl_pc[c] # "idle") ~> (cl_pc[c] = "idle")

\* the put of the second flush, which compacted the two tables, returns
\* while the reading client has a Get under way
C31_Witness ==
    /\ ret.kind = "ok" /\ ret.cmd.op = "Put"
    /\ nflush = 2 /\ Len(tables) = 1
    /\ cl_pc[2] # "idle"

\* the record of key in a list of records, None when no record has the key
RecordOf(pairs, key) ==
    LET at == {j \in 1..Len(pairs) : pairs[j].key = key}
    IN IF at = {} THEN None ELSE Some(pairs[CHOOSE j \in at : TRUE])

LeftoverRecords ==
    {<<InternalPair(<<1>>, Some(<<8, 8>>))>>,
     <<InternalPair(<<1>>, Some(<<8, 8>>)), InternalPair(<<1, 2>>, None)>>}

LeftoverFiles(pairs) == [p \in {0, 1, 2} |-> serialize_flatten(pairs)]

InitLeftover ==
    /\ \E pairs \in LeftoverRecords : InitStoreOn(Clients, LeftoverFiles(pairs))
    /\ fn_in = <<>>
    /\ fn_out = None

\* the store from there on, no further I/O error
SpecLeftover == InitLeftover /\ [][StoreNext]_vars

\* C33: a successful compaction leaves the list [merged] with the merged
\* table in file table_0, every input file deleted and no other file in the
\* directory, so that the table of the next flush is created as table_1;
\* every flush creates its table in the file new_table_path names.
C33_AfterCompaction ==
    [][/\ MgrCompactCreate =>
              /\ \A i \in 1..Len(mgr_cur.inputs) :
                     mgr_cur.inputs[i].path \notin DOMAIN files
              /\ tables' = <<SSTable_new(0, mgr_cur.merged, mgr_cur.compacted_size,
                                         BlockStride)>>
              /\ DOMAIN files' = {0}
              /\ files'[0] = serialize_flatten(mgr_cur.merged)
              /\ new_table_path(tables') = 1
       /\ MgrCreate =>
              /\ Len(tables') = Len(tables) + 1
              /\ tables'[Len(tables')].path = new_table_path(tables)
              /\ new_table_path(tables) \in DOMAIN files']_vars

\* the keys of the records ascend strictly: sorted, and no key twice
StrictlyAscending(pairs) ==
    \A i \in 1..(Len(pairs) - 1) : KeyLt(pairs[i].key, pairs[i + 1].key)

\* C34: every SSTable the manager holds has its records in strictly
\* ascending key order with no key repeated: the whole file of each table of
\* the list decodes to such records, and so do the records of a Flush the
\* manager has taken in and the records a compaction has merged.
C34_TablesSorted ==
    /\ \A i \in 1..Len(tables) :
           /\ tables[i].path \in DOMAIN files
           /\ \E d \in {PersistedFile_read_all(files[tables[i].path])} :
                  d.ok /\ StrictlyAscending(d.pairs)
    /\ mgr_pc \in {"create", "compact"} => StrictlyAscending(mgr_cur.pairs)
    /\ mgr_pc = "compact_delete" => StrictlyAscending(mgr_cur.merged)

\* C35: for sorted records and block_stride >= 1 the index has one block per
\* block_stride records (the last block may cover fewer); the first key of a
\* block is the smallest key of its records, block 0 starts at offset 0, each
\* next block starts where the previous one ends, the lengths add up to the
\* length of the whole encoding, and the first keys ascend strictly.
C35_BlockStructure ==
    fn_out # None =>
        LET pairs == fn_in.pairs
            stride == fn_in.block_stride
            items == Index_new(pairs, stride)
            n == Len(items)
        IN /\ n = BlockCount(pairs, stride)
           /\ \A j \in 1..n :
                  /\ j < n => BlockLast(pairs, j, stride) - BlockFirst(j, stride) + 1 = stride
                  /\ BlockFirst(j, stride) <= BlockLast(pairs, j, stride)
                  /\ items[j].length
                         = Len(serialize_flatten(SubSeq(pairs, BlockFirst(j, stride),
                                                        BlockLast(pairs, j, stride))))
                  /\ \A i \in BlockFirst(j, stride)..BlockLast(pairs, j, stride) :
                         KeyLe(items[j].key, pairs[i].key)
                  /\ \E i \in BlockFirst(j, stride)..BlockLast(pairs, j, stride) :
                         items[j].key = pairs[i].key
           /\ n > 0 => items[1].position = 0
           /\ \A j \in 1..(n - 1) :
                  /\ items[j + 1].position = items[j].position + items[j].length
                  /\ KeyLt(items[j].key, items[j + 1].key)
           /\ n > 0 => items[n].position + items[n].length = Len(serialize_flatten(pairs))
           /\ n = 0 => pairs = <<>>

\* the index of five records in blocks of two was built: three blocks, the
\* last of one record
C35_Witness ==
    /\ fn_out # None
    /\ fn_in.pairs = IndexPairs(IndexKeys) /\ fn_in.block_stride = 2 /\ fn_in.key = <<4>>
    /\ Len(Index_new(fn_in.pairs, fn_in.block_stride)) = 3
    /\ Index_new(fn_in.pairs, fn_in.block_stride)[3].position = 72

\* C36: the table at index i of the manager's list (oldest first, from 0) is
\* stored in file table_i, so no two tables of the list share a file, and the
\* file name a flush or a compaction creates its table under is not the name
\* of a file that exists at that moment.
C36_FileNaming ==
    [][/\ \A i \in 1..Len(tables') : tables'[i].path = i - 1
       /\ \A i, j \in 1..Len(tables') : tables'[i].path = tables'[j].path => i = j
       /\ (MgrCreate \/ MgrCompactCreate) =>
              new_table_path(tables) \notin DOMAIN files]_vars

\* C37: whenever the MemTable task is not inside a put, its counter is
\* within 0..size_limit; a put that raised the counter above the limit ends
\* with the map cleared and the counter 0; a delete never raises the counter.
C37_CounterBounded ==
    [][/\ mem_pc' = "recv" => (0 <= actual_size' /\ actual_size' <= SizeLimit)
       /\ MemPut => ~exceeds_limit(actual_size')
       /\ MemPutFlush => (exceeds_limit(actual_size') /\ mem_pc' = "flushing")
       /\ MemFlushDone => (map' = EmptyMap /\ actual_size' = 0 /\ mem_pc' = "recv")
       /\ MemDelete => (0 <= actual_size' /\ actual_size' <= actual_size)]_vars

\* the second put that raised the counter above the limit has ended its
\* flush and returned: the map is empty and the counter 0
C37_Witness ==
    /\ mem_pc = "recv" /\ nflush = 2 /\ actual_size = 0 /\ map = EmptyMap
    /\ ret.kind = "ok" /\ ret.cmd.op = "Put" /\ ret.cmd.key = <<1, 2>>
    /\ Len(tables) = 2

\* C38: the counter arithmetic stays within the unsigned range: no put
\* aborts in its subtraction new_value_len - value.len(), no put that is
\* carried out has that subtraction wrap, and neither a put nor a delete
\* takes the counter below 0.
C38_NoWrap ==
    [][/\ ~MemPutPanic
       /\ (MemPut \/ MemPutFlush) =>
              /\ ~put_overflows(map, MemHead.cmd.key, MemHead.cmd.value)
              /\ actual_size' >= 0
       /\ MemDelete => actual_size' >= 0]_vars

\* ---------------------------------------------------------------------
\* Shutdown: the router calls give up their senders, and the listen loops
\* receive None from their closed channels
\* ---------------------------------------------------------------------
\* a router call that is not waiting is dropped with its two senders
ClDrop(c) ==
    /\ cl_pc[c] = "idle"
    /\ cl_pc' = [cl_pc EXCEPT ![c] = "dropped"]
    /\ ret' = NoReturn
    /\ UNCHANGED <<memVars, mgrVars, memtable_rx, sstable_rx, cl_cmd, cl_reply, watch,
                   fixedVars, faults, nflush>>

\* every sender held by the router is dropped
RouterDropped == \A c \in DOMAIN cl_pc : cl_pc[c] = "dropped"

\* MemTable::listen: command_rx.recv() yields None, the while let loop ends
\* and listen returns; the task ends and drops the MemTable with flushing_tx
MemRecvNone ==
    /\ mem_pc = "recv" /\ memtable_rx = <<>>
    /\ RouterDropped
    /\ mem_pc' = "returned"
    /\ ret' = NoReturn
    /\ UNCHANGED <<map, actual_size, mem_cur, mgrVars, memtable_rx, sstable_rx, cl_pc,
                   cl_cmd, cl_reply, watch, fixedVars, faults, nflush>>

\* SSTableManager::listen: command_rx.recv() yields None once the router and
\* the MemTable have dropped their senders: the arm None => warn!(..)
MgrRecvNone ==
    /\ mgr_pc = "recv" /\ sstable_rx = <<>>
    /\ RouterDropped
    /\ mem_pc \in {"returned", "panicked"}
    /\ mgr_pc' = "warned"
    /\ ret' = NoReturn
    /\ UNCHANGED <<memVars, memtable_rx, sstable_rx, tables, files, mgr_cur, flush_reply,
                   cl_pc, cl_cmd, cl_reply, watch, fixedVars, faults, nflush>>

\* SSTableManager::listen: after the warning the loop goes round to recv()
MgrLoop ==
    /\ mgr_pc = "warned"
    /\ mgr_pc' = "recv"
    /\ ret' = NoReturn
    /\ UNCHANGED <<memVars, memtable_rx, sstable_rx, tables, files, mgr_cur, flush_reply,
                   cl_pc, cl_cmd, cl_reply, watch, fixedVars, faults, nflush>>

ShutdownNext ==
    \/ \E c \in Clients : ClDrop(c)
    \/ MemRecvNone
    \/ MgrRecvNone
    \/ MgrLoop
    \/ StoreNext

\* the store with its shutdown, no I/O error
SpecShutdown == Init /\ [][ShutdownNext]_vars

\* C39: each listen loop ends when its command channel is closed: the step
\* in which recv() yields None is the return of listen, for the MemTable and
\* for the manager, and no loop goes back to receiving on a closed channel.
C39_ListenEnds ==
    [][/\ MemRecvNone => mem_pc' = "returned"
       /\ MgrRecvNone => mgr_pc' = "returned"
       /\ ~MgrLoop]_vars

\* ---------------------------------------------------------------------
\* The order on records (format.rs): #[derive(Ord, PartialOrd)] on
\* InternalPair { key, value } compares the fields in their order of
\* declaration.  fn_in is a pair of records, fn_out the result of a.cmp(&b)
\* ---------------------------------------------------------------------
\* Ord for Vec<u8>: lexicographic on the bytes
Vec_cmp(a, b) == IF a = b THEN "Equal" ELSE IF KeyLt(a, b) THEN "Less" ELSE "Greater"

\* Ord for Option<Vec<u8>>: None is less than every Some
Option_cmp(a, b) ==
    IF a = None /\ b = None THEN "Equal"
    ELSE IF a = None THEN "Less"
    ELSE IF b = None THEN "Greater"
    ELSE Vec_cmp(Unwrap(a), Unwrap(b))

\* an order that looks at the value before the key
InternalPair_cmp_value_first(a, b) ==
    IF Option_cmp(a.value, b.value) # "Equal" THEN Option_cmp(a.value, b.value)
    ELSE Vec_cmp(a.key, b.key)

\* the derived Ord of InternalPair: the key, then the value
InternalPair_cmp(a, b) ==
    IF Vec_cmp(a.key, b.key) # "Equal" THEN Vec_cmp(a.key, b.key)
    ELSE Option_cmp(a.value, b.value)

InitOrder ==
    /\ InitStore
    /\ overflow_checks = FALSE
    /\ fn_in \in [a : CodecRecords, b : CodecRecords]
    /\ fn_out = None

\* a.cmp(&b)
OrderApply ==
    /\ fn_out = None
    /\ fn_out' = Some(InternalPair_cmp(fn_in.a, fn_in.b))
    /\ UNCHANGED <<memVars, mgrVars, memtable_rx, sstable_rx, cl_pc, cl_cmd, cl_reply, ret,
                   watch, overflow_checks, lock, call, fn_in, faults, nflush>>

SpecOrder == InitOrder /\ [][OrderApply]_vars

\* C40 as stated: a record with a smaller key compares less whatever the
\* values are, and two records with the same key compare as equal whatever
\* their values.
C40_KeyOnlyOrder ==
    fn_out # None =>
        /\ KeyLt(fn_in.a.key, fn_in.b.key) => Unwrap(fn_out) = "Less"
        /\ KeyLt(fn_in.b.key, fn_in.a.key) => Unwrap(fn_out) = "Greater"
        /\ fn_in.a.key = fn_in.b.key => Unwrap(fn_out) = "Equal"

\* C40: a record with a smaller key compares less whatever the values are;
\* two records with the same key compare by their values: equal only when
\* the values are the same, a tombstone less than every live value, and two
\* live values in the byte order of the values.
C40_KeyThenValueOrder ==
    fn_out # None =>
        LET a == fn_in.a
            b == fn_in.b
        IN /\ KeyLt(a.key, b.key) => Unwrap(fn_out) = "Less"
           /\ KeyLt(b.key, a.key) => Unwrap(fn_out) = "Greater"
           /\ a.key = b.key =>
                  /\ Unwrap(fn_out) = "Equal" <=> a.value = b.value
                  /\ (a.value = None /\ b.value # None) => Unwrap(fn_out) = "Less"
                  /\ (a.value # None /\ b.value = None) => Unwrap(fn_out) = "Greater"
                  /\ (a.value # None /\ b.value # None) =>
                         (Unwrap(fn_out) = "Less"
                              <=> KeyLt(Unwrap(a.value), Unwrap(b.value)))

\* the tombstone of a key was compared with a live record of the same key
C40_Witness ==
    /\ fn_in.a = InternalPair(<<1>>, None)
    /\ fn_in.b = InternalPair(<<1>>, Some(<<7>>))
    /\ fn_out = Some("Less")

====
